---- MODULE Spec2Model ----
(***************************************************************************)
(* SHA-1 of an in-memory buffer: mango::sha1() with its three compression  *)
(* backends (generic C++, ARMv8 crypto intrinsics, Intel SHA intrinsics),  *)
(* from source/mango/core/sha1.cpp.                                        *)
(*                                                                         *)
(* TLC's integers are 32-bit signed, so a C++ u32 is a pair <<hi, lo>> of  *)
(* 16-bit halves and a 64-bit quantity (size_t, u64, a pointer offset) is  *)
(* a tuple of four 16-bit limbs, most significant first.  All arithmetic   *)
(* keeps the width of the C++ type it models.                              *)
(***************************************************************************)
EXTENDS Integers, Sequences, FiniteSets, TLC

Half == 2 ^ 16

\* y, with x evaluated first: the source's statement order, made explicit
After(x, y) == <<x, y>>[2]

(***************************************************************************)
(* Bitwise operations on 16-bit halves, four bits at a time.               *)
(***************************************************************************)
\* XOR and AND of two 4-bit values
XorBits(p, q) ==
    ((p + q) % 2) + 2 * (((p \div 2) + (q \div 2)) % 2)
    + 4 * (((p \div 4) + (q \div 4)) % 2) + 8 * (((p \div 8) + (q \div 8)) % 2)

AndBits(p, q) ==
    ((p % 2) * (q % 2)) + 2 * (((p \div 2) % 2) * ((q \div 2) % 2))
    + 4 * (((p \div 4) % 2) * ((q \div 4) % 2)) + 8 * ((p \div 8) * (q \div 8))

\* the same, tabulated: entry 16 * p + q
XorNib == [i \in 0..255 |-> XorBits(i \div 16, i % 16)] @@ <<>>

AndNib == [i \in 0..255 |-> AndBits(i \div 16, i % 16)] @@ <<>>

Xor16(a, b) ==
    (XorNib[16 * (a % 16) + (b % 16)] + 16 * XorNib[16 * ((a \div 16) % 16) + ((b \div 16) % 16)])
    + (256 * XorNib[16 * ((a \div 256) % 16) + ((b \div 256) % 16)]
       + 4096 * XorNib[16 * (a \div 4096) + (b \div 4096)])

And16(a, b) ==
    (AndNib[16 * (a % 16) + (b % 16)] + 16 * AndNib[16 * ((a \div 16) % 16) + ((b \div 16) % 16)])
    + (256 * AndNib[16 * ((a \div 256) % 16) + ((b \div 256) % 16)]
       + 4096 * AndNib[16 * (a \div 4096) + (b \div 4096)])

(***************************************************************************)
(* u32 arithmetic: the operators the source applies to u32 values.         *)
(***************************************************************************)
U32(hi, lo) == <<hi, lo>>

Zero32 == U32(0, 0)

Ones32 == U32(65535, 65535)

\* a + b mod 2^32
Add32(a, b) ==
    << (a[1] + b[1] + ((a[2] + b[2]) \div Half)) % Half, (a[2] + b[2]) % Half >>

\* the sum of the words of the tuple t (at most eight) mod 2^32
Sum32(t) ==
    LET lo == IF Len(t) = 4 THEN t[1][2] + t[2][2] + t[3][2] + t[4][2]
              ELSE t[1][2] + t[2][2] + t[3][2] + t[4][2] + t[5][2]
        hi == IF Len(t) = 4 THEN t[1][1] + t[2][1] + t[3][1] + t[4][1]
              ELSE t[1][1] + t[2][1] + t[3][1] + t[4][1] + t[5][1]
    IN  << (hi + (lo \div Half)) % Half, lo % Half >>

\* a - b mod 2^32
Sub32(a, b) ==
    LET lo == a[2] - b[2]
        hi == (a[1] - b[1]) - (IF lo < 0 THEN 1 ELSE 0)
    IN  << (hi + Half) % Half, (lo + Half) % Half >>

Xor32(a, b) == <<Xor16(a[1], b[1]), Xor16(a[2], b[2])>>

And32(a, b) == <<And16(a[1], b[1]), And16(a[2], b[2])>>

Or32(a, b) == << (a[1] + b[1]) - And16(a[1], b[1]), (a[2] + b[2]) - And16(a[2], b[2]) >>

Not32(a) == <<65535 - a[1], 65535 - a[2]>>

Pow2(n) == 2 ^ n

\* rotate left by n, 0 <= n <= 31
u32_rol(x, n) ==
    LET s == IF n >= 16 THEN <<x[2], x[1]>> ELSE x
        k == n % 16
    IN  << ((s[1] * Pow2(k)) % Half) + (s[2] \div Pow2(16 - k)),
           ((s[2] * Pow2(k)) % Half) + (s[1] \div Pow2(16 - k)) >>

\* bitwise mask ? a : b
u32_select(mask, a, b) ==
    << Xor16(And16(mask[1], Xor16(a[1], b[1])), b[1]),
       Xor16(And16(mask[2], Xor16(a[2], b[2])), b[2]) >>

\* big-endian load of the four bytes p[1..4]
uload32be(p) == <<p[1] * 256 + p[2], p[3] * 256 + p[4]>>

byteswap(x) == << (x[2] % 256) * 256 + (x[2] \div 256),
                  (x[1] % 256) * 256 + (x[1] \div 256) >>

\* a u32 read through a uint32_t pointer: the four bytes in host order
LoadHost32(p, le) == IF le THEN <<p[4] * 256 + p[3], p[2] * 256 + p[1]>> ELSE uload32be(p)

\* the four bytes of a u32 in memory, in host order
StoreHost32(x, le) ==
    IF le THEN <<x[2] % 256, x[2] \div 256, x[1] % 256, x[1] \div 256>>
    ELSE <<x[1] \div 256, x[1] % 256, x[2] \div 256, x[2] % 256>>

K1 == U32(\h5A82, \h7999)
K2 == U32(\h6ED9, \hEBA1)
K3 == U32(\h8F1B, \hBCDC)
K4 == U32(\hCA62, \hC1D6)

Undef == <<>>

(***************************************************************************)
(* Generic C++ SHA1.  The registers A..E are a record; a call              *)
(* F1(E, A, B, C, D, w[1]) of the source is F1(r, "E", "A", "B", "C", "D", *)
(* w[1]): the names say which register each parameter is bound to.         *)
(***************************************************************************)
\* F1 with the last two arguments of u32_select exchanged.
F1SelectSwapped(r, a, b, c, d, e, msg) ==
    [r EXCEPT ![e] = Sum32(<<r[e], u32_select(r[b], r[d], r[c]), msg, K1, u32_rol(r[a], 5)>>),
              ![b] = u32_rol(r[b], 30)]

F1(r, a, b, c, d, e, msg) ==
    [r EXCEPT ![e] = Sum32(<<r[e], u32_select(r[b], r[c], r[d]), msg, K1, u32_rol(r[a], 5)>>),
              ![b] = u32_rol(r[b], 30)]

F2(r, a, b, c, d, e, msg) ==
    [r EXCEPT ![e] = Sum32(<<r[e], Xor32(Xor32(r[b], r[c]), r[d]), msg, K2, u32_rol(r[a], 5)>>),
              ![b] = u32_rol(r[b], 30)]

\* Rounds 40..59 done with the parity function and constant of rounds 20..39.
F3_as_F2(r, a, b, c, d, e, msg) == F2(r, a, b, c, d, e, msg)

F3(r, a, b, c, d, e, msg) ==
    [r EXCEPT ![e] = Sum32(<<r[e], u32_select(Xor32(r[b], r[c]), r[d], r[c]), msg, K3,
                             u32_rol(r[a], 5)>>),
              ![b] = u32_rol(r[b], 30)]

F4(r, a, b, c, d, e, msg) ==
    [r EXCEPT ![e] = Sum32(<<r[e], Xor32(Xor32(r[b], r[c]), r[d]), msg, K4, u32_rol(r[a], 5)>>),
              ![b] = u32_rol(r[b], 30)]

\* the 80 unrolled calls of generic_sha1_transform, in source order:
\* <<n, a, b, c, d, e, i>> is Fn(a, b, c, d, e, w[i])
RoundCalls ==
    <<
      <<1, "A", "B", "C", "D", "E", 0>>, <<1, "E", "A", "B", "C", "D", 1>>,
      <<1, "D", "E", "A", "B", "C", 2>>, <<1, "C", "D", "E", "A", "B", 3>>,
      <<1, "B", "C", "D", "E", "A", 4>>, <<1, "A", "B", "C", "D", "E", 5>>,
      <<1, "E", "A", "B", "C", "D", 6>>, <<1, "D", "E", "A", "B", "C", 7>>,
      <<1, "C", "D", "E", "A", "B", 8>>, <<1, "B", "C", "D", "E", "A", 9>>,
      <<1, "A", "B", "C", "D", "E", 10>>, <<1, "E", "A", "B", "C", "D", 11>>,
      <<1, "D", "E", "A", "B", "C", 12>>, <<1, "C", "D", "E", "A", "B", 13>>,
      <<1, "B", "C", "D", "E", "A", 14>>, <<1, "A", "B", "C", "D", "E", 15>>,
      <<1, "E", "A", "B", "C", "D", 16>>, <<1, "D", "E", "A", "B", "C", 17>>,
      <<1, "C", "D", "E", "A", "B", 18>>, <<1, "B", "C", "D", "E", "A", 19>>,
      <<2, "A", "B", "C", "D", "E", 20>>, <<2, "E", "A", "B", "C", "D", 21>>,
      <<2, "D", "E", "A", "B", "C", 22>>, <<2, "C", "D", "E", "A", "B", 23>>,
      <<2, "B", "C", "D", "E", "A", 24>>, <<2, "A", "B", "C", "D", "E", 25>>,
      <<2, "E", "A", "B", "C", "D", 26>>, <<2, "D", "E", "A", "B", "C", 27>>,
      <<2, "C", "D", "E", "A", "B", 28>>, <<2, "B", "C", "D", "E", "A", 29>>,
      <<2, "A", "B", "C", "D", "E", 30>>, <<2, "E", "A", "B", "C", "D", 31>>,
      <<2, "D", "E", "A", "B", "C", 32>>, <<2, "C", "D", "E", "A", "B", 33>>,
      <<2, "B", "C", "D", "E", "A", 34>>, <<2, "A", "B", "C", "D", "E", 35>>,
      <<2, "E", "A", "B", "C", "D", 36>>, <<2, "D", "E", "A", "B", "C", 37>>,
      <<2, "C", "D", "E", "A", "B", 38>>, <<2, "B", "C", "D", "E", "A", 39>>,
      <<3, "A", "B", "C", "D", "E", 40>>, <<3, "E", "A", "B", "C", "D", 41>>,
      <<3, "D", "E", "A", "B", "C", 42>>, <<3, "C", "D", "E", "A", "B", 43>>,
      <<3, "B", "C", "D", "E", "A", 44>>, <<3, "A", "B", "C", "D", "E", 45>>,
      <<3, "E", "A", "B", "C", "D", 46>>, <<3, "D", "E", "A", "B", "C", 47>>,
      <<3, "C", "D", "E", "A", "B", 48>>, <<3, "B", "C", "D", "E", "A", 49>>,
      <<3, "A", "B", "C", "D", "E", 50>>, <<3, "E", "A", "B", "C", "D", 51>>,
      <<3, "D", "E", "A", "B", "C", 52>>, <<3, "C", "D", "E", "A", "B", 53>>,
      <<3, "B", "C", "D", "E", "A", 54>>, <<3, "A", "B", "C", "D", "E", 55>>,
      <<3, "E", "A", "B", "C", "D", 56>>, <<3, "D", "E", "A", "B", "C", 57>>,
      <<3, "C", "D", "E", "A", "B", 58>>, <<3, "B", "C", "D", "E", "A", 59>>,
      <<4, "A", "B", "C", "D", "E", 60>>, <<4, "E", "A", "B", "C", "D", 61>>,
      <<4, "D", "E", "A", "B", "C", 62>>, <<4, "C", "D", "E", "A", "B", 63>>,
      <<4, "B", "C", "D", "E", "A", 64>>, <<4, "A", "B", "C", "D", "E", 65>>,
      <<4, "E", "A", "B", "C", "D", 66>>, <<4, "D", "E", "A", "B", "C", 67>>,
      <<4, "C", "D", "E", "A", "B", 68>>, <<4, "B", "C", "D", "E", "A", 69>>,
      <<4, "A", "B", "C", "D", "E", 70>>, <<4, "E", "A", "B", "C", "D", 71>>,
      <<4, "D", "E", "A", "B", "C", 72>>, <<4, "C", "D", "E", "A", "B", 73>>,
      <<4, "B", "C", "D", "E", "A", 74>>, <<4, "A", "B", "C", "D", "E", 75>>,
      <<4, "E", "A", "B", "C", "D", 76>>, <<4, "D", "E", "A", "B", "C", 77>>,
      <<4, "C", "D", "E", "A", "B", 78>>, <<4, "B", "C", "D", "E", "A", 79>>
    >>

ApplyCall(r, w, call) ==
    CASE call[1] = 1 -> F1(r, call[2], call[3], call[4], call[5], call[6], w[call[7] + 1])
      [] call[1] = 2 -> F2(r, call[2], call[3], call[4], call[5], call[6], w[call[7] + 1])
      [] call[1] = 3 -> F3(r, call[2], call[3], call[4], call[5], call[6], w[call[7] + 1])
      [] call[1] = 4 -> F4(r, call[2], call[3], call[4], call[5], call[6], w[call[7] + 1])

\* the calls lo..hi (1-based) in order
RECURSIVE ApplyCalls(_, _, _, _)
ApplyCalls(r, w, lo, hi) ==
    IF lo > hi THEN r
    ELSE IF lo = hi THEN ApplyCall(r, w, RoundCalls[lo])
    ELSE LET Rest(left) == After(left, ApplyCalls(left, w, ((lo + hi) \div 2) + 1, hi))
         IN  Rest(ApplyCalls(r, w, lo, (lo + hi) \div 2))

\* The expansion with the first tap of w[i + 0] one word too early.
ExpandEightWrongTap(w, i) ==
    LET X(j) == w[j + 1]
        w0 == u32_rol(Xor32(Xor32(Xor32(X(i - 4), X(i - 8)), X(i - 14)), X(i - 16)), 1)
        w1 == u32_rol(Xor32(Xor32(Xor32(X(i - 2), X(i - 7)), X(i - 13)), X(i - 15)), 1)
        w2 == u32_rol(Xor32(Xor32(Xor32(X(i - 1), X(i - 6)), X(i - 12)), X(i - 14)), 1)
        w3 == u32_rol(Xor32(Xor32(Xor32(w0, X(i - 5)), X(i - 11)), X(i - 13)), 1)
        w4 == u32_rol(Xor32(Xor32(Xor32(w1, X(i - 4)), X(i - 10)), X(i - 12)), 1)
        w5 == u32_rol(Xor32(Xor32(Xor32(w2, X(i - 3)), X(i - 9)), X(i - 11)), 1)
        w6 == u32_rol(Xor32(Xor32(Xor32(w3, X(i - 2)), X(i - 8)), X(i - 10)), 1)
        w7 == u32_rol(Xor32(Xor32(Xor32(w4, X(i - 1)), X(i - 7)), X(i - 9)), 1)
    IN  w \o <<w0, w1, w2, w3, w4, w5, w6, w7>>

\* one pass of the expansion loop body (i is the C++ loop variable; w[j] of
\* the source is w[j + 1] here)
ExpandEight(w, i) ==
    LET X(j) == w[j + 1]
        w0 == u32_rol(Xor32(Xor32(Xor32(X(i - 3), X(i - 8)), X(i - 14)), X(i - 16)), 1)
        w1 == u32_rol(Xor32(Xor32(Xor32(X(i - 2), X(i - 7)), X(i - 13)), X(i - 15)), 1)
        w2 == u32_rol(Xor32(Xor32(Xor32(X(i - 1), X(i - 6)), X(i - 12)), X(i - 14)), 1)
        w3 == u32_rol(Xor32(Xor32(Xor32(w0, X(i - 5)), X(i - 11)), X(i - 13)), 1)
        w4 == u32_rol(Xor32(Xor32(Xor32(w1, X(i - 4)), X(i - 10)), X(i - 12)), 1)
        w5 == u32_rol(Xor32(Xor32(Xor32(w2, X(i - 3)), X(i - 9)), X(i - 11)), 1)
        w6 == u32_rol(Xor32(Xor32(Xor32(w3, X(i - 2)), X(i - 8)), X(i - 10)), 1)
        w7 == u32_rol(Xor32(Xor32(Xor32(w4, X(i - 1)), X(i - 7)), X(i - 9)), 1)
    IN  w \o <<w0, w1, w2, w3, w4, w5, w6, w7>>

\* for (int i = 16; i < 80; i += 8)
RECURSIVE ExpandLoop(_, _)
ExpandLoop(w, i) ==
    IF i < 80
    THEN LET Rest(next) == After(next, ExpandLoop(next, i + 8)) IN Rest(ExpandEight(w, i))
    ELSE w

\* u32 w[80] after the two loops of lines 496-513, blk being the 64 bytes at data
GenericSchedule(blk) ==
    LET Load(i) == uload32be(SubSeq(blk, (4 * i) + 1, (4 * i) + 4))
    IN  ExpandLoop([i \in 1..16 |-> Load(i - 1)] \o <<>>, 16)

\* one iteration of the while loop: digest is the five state words, blk the
\* 64 bytes at data
GenericBlock(digest, blk) ==
    LET Rounds(w) ==
            After(w, ApplyCalls([A |-> digest[1], B |-> digest[2], C |-> digest[3],
                                 D |-> digest[4], E |-> digest[5]], w, 1, Len(RoundCalls)))
        Sum(r) ==
            After(r, << Add32(digest[1], r.A), Add32(digest[2], r.B), Add32(digest[3], r.C),
                        Add32(digest[4], r.D), Add32(digest[5], r.E) >>)
    IN  Sum(Rounds(GenericSchedule(blk)))

\* while (blocks-- > 0): data is the byte sequence the pointer addresses
\* A block loop whose data pointer is never advanced: every iteration reads block 0.
RECURSIVE GenericLoopNoAdvance(_, _, _)
GenericLoopNoAdvance(digest, data, blocks) ==
    IF blocks > 0
    THEN LET Rest(next) == After(next, GenericLoopNoAdvance(next, data, blocks - 1))
         IN  Rest(GenericBlock(digest, SubSeq(data, 1, 64)))
    ELSE digest

\* A block loop that walks the data from its last block to its first.
RECURSIVE GenericLoopLastFirst(_, _, _)
GenericLoopLastFirst(digest, data, blocks) ==
    IF blocks > 0
    THEN LET Rest(next) == After(next, GenericLoopLastFirst(next, data, blocks - 1))
         IN  Rest(GenericBlock(digest, SubSeq(data, (64 * blocks) - 63, 64 * blocks)))
    ELSE digest

RECURSIVE GenericLoop(_, _, _)
GenericLoop(digest, data, blocks) ==
    IF blocks > 0
    THEN LET Rest(next) ==
                 After(next, GenericLoop(next, SubSeq(data, 65, Len(data)), blocks - 1))
         IN  Rest(GenericBlock(digest, SubSeq(data, 1, 64)))
    ELSE digest

generic_sha1_transform(digest, data, blocks) == GenericLoop(digest, data, blocks)

(***************************************************************************)
(* 128-bit vectors are <<lane 0, lane 1, lane 2, lane 3>> of u32.  The     *)
(* loop bodies of the two intrinsic backends are kept as statement lists,  *)
(* <<destination, operation, operands>>, one entry per source statement.   *)
(***************************************************************************)

(***************************************************************************)
(* ARM Crypto SHA1                                                         *)
(***************************************************************************)
vld1q_u32(p, le) ==
    << LoadHost32(SubSeq(p, 1, 4), le), LoadHost32(SubSeq(p, 5, 8), le),
       LoadHost32(SubSeq(p, 9, 12), le), LoadHost32(SubSeq(p, 13, 16), le) >>

\* The message words of a little-endian ARM build taken without the byte reversal.
vrev32q_u8_omitted(v) == v

vrev32q_u8(v) == <<byteswap(v[1]), byteswap(v[2]), byteswap(v[3]), byteswap(v[4])>>

vaddq_u32(a, b) ==
    <<Add32(a[1], b[1]), Add32(a[2], b[2]), Add32(a[3], b[3]), Add32(a[4], b[4])>>

vdupq_n_u32(x) == <<x, x, x, x>>

vsha1h_u32(x) == u32_rol(x, 30)

SHAchoose(x, y, z) == Xor32(And32(Xor32(y, z), x), z)

SHAparity(x, y, z) == Xor32(Xor32(x, y), z)

SHAmajority(x, y, z) == Or32(And32(x, y), And32(Or32(x, y), z))

\* one of the four iterations of SHA1C / SHA1P / SHA1M on <<X, Y>>, t the
\* value of the instruction's function of X[2], X[3], X[4]
SHA1Step(X, Y, t, w) ==
    << <<Sum32(<<Y, u32_rol(X[1], 5), t, w>>), X[1], u32_rol(X[2], 30), X[3]>>, X[4] >>

SHA1CStep(s, w) == After(s, SHA1Step(s[1], s[2], SHAchoose(s[1][2], s[1][3], s[1][4]), w))

SHA1PStep(s, w) == After(s, SHA1Step(s[1], s[2], SHAparity(s[1][2], s[1][3], s[1][4]), w))

SHA1MStep(s, w) == After(s, SHA1Step(s[1], s[2], SHAmajority(s[1][2], s[1][3], s[1][4]), w))

vsha1cq_u32(hash_abcd, hash_e, wk) ==
    SHA1CStep(SHA1CStep(SHA1CStep(SHA1CStep(<<hash_abcd, hash_e>>, wk[1]), wk[2]), wk[3]), wk[4])[1]

vsha1pq_u32(hash_abcd, hash_e, wk) ==
    SHA1PStep(SHA1PStep(SHA1PStep(SHA1PStep(<<hash_abcd, hash_e>>, wk[1]), wk[2]), wk[3]), wk[4])[1]

vsha1mq_u32(hash_abcd, hash_e, wk) ==
    SHA1MStep(SHA1MStep(SHA1MStep(SHA1MStep(<<hash_abcd, hash_e>>, wk[1]), wk[2]), wk[3]), wk[4])[1]

vsha1su0q_u32(w0_3, w4_7, w8_11) ==
    << Xor32(Xor32(w0_3[3], w0_3[1]), w8_11[1]),
       Xor32(Xor32(w0_3[4], w0_3[2]), w8_11[2]),
       Xor32(Xor32(w4_7[1], w0_3[3]), w8_11[3]),
       Xor32(Xor32(w4_7[2], w0_3[4]), w8_11[4]) >>

vsha1su1q_u32(tw0_3, w12_15) ==
    LET Rotate(T) == << u32_rol(T[1], 1), u32_rol(T[2], 1), u32_rol(T[3], 1),
                        Xor32(u32_rol(T[4], 1), u32_rol(T[1], 2)) >>
    IN  Rotate(<< Xor32(tw0_3[1], w12_15[2]), Xor32(tw0_3[2], w12_15[3]),
                  Xor32(tw0_3[3], w12_15[4]), tw0_3[4] >>)

RoundConstant(name) ==
    CASE name = "K1" -> K1 [] name = "K2" -> K2 [] name = "K3" -> K3 [] name = "K4" -> K4

\* the statements of the while-loop body of arm_sha1_transform, in source order
ArmStatements ==
    <<
      <<"ABCD_SAVED", "copy", "ABCD", "", "">>, <<"E0_SAVED", "copy", "E0", "", "">>,
      <<"MSG0", "vld1q_u32", 0, "", "">>, <<"MSG1", "vld1q_u32", 16, "", "">>,
      <<"MSG2", "vld1q_u32", 32, "", "">>, <<"MSG3", "vld1q_u32", 48, "", "">>,
      <<"MSG0", "vrev32q_u8", "MSG0", "", "">>, <<"MSG1", "vrev32q_u8", "MSG1", "", "">>,
      <<"MSG2", "vrev32q_u8", "MSG2", "", "">>, <<"MSG3", "vrev32q_u8", "MSG3", "", "">>,
      <<"TMP0", "vaddq_u32_dup", "MSG0", "K1", "">>, <<"TMP1", "vaddq_u32_dup", "MSG1", "K1", "">>,
      <<"E1", "vsha1h_u32", "ABCD", "", "">>, <<"ABCD", "vsha1cq_u32", "ABCD", "E0", "TMP0">>,
      <<"TMP0", "vaddq_u32_dup", "MSG2", "K1", "">>, <<"MSG0", "vsha1su0q_u32", "MSG0", "MSG1", "MSG2">>,
      <<"E0", "vsha1h_u32", "ABCD", "", "">>, <<"ABCD", "vsha1cq_u32", "ABCD", "E1", "TMP1">>,
      <<"TMP1", "vaddq_u32_dup", "MSG3", "K1", "">>, <<"MSG0", "vsha1su1q_u32", "MSG0", "MSG3", "">>,
      <<"MSG1", "vsha1su0q_u32", "MSG1", "MSG2", "MSG3">>, <<"E1", "vsha1h_u32", "ABCD", "", "">>,
      <<"ABCD", "vsha1cq_u32", "ABCD", "E0", "TMP0">>, <<"TMP0", "vaddq_u32_dup", "MSG0", "K1", "">>,
      <<"MSG1", "vsha1su1q_u32", "MSG1", "MSG0", "">>, <<"MSG2", "vsha1su0q_u32", "MSG2", "MSG3", "MSG0">>,
      <<"E0", "vsha1h_u32", "ABCD", "", "">>, <<"ABCD", "vsha1cq_u32", "ABCD", "E1", "TMP1">>,
      <<"TMP1", "vaddq_u32_dup", "MSG1", "K2", "">>, <<"MSG2", "vsha1su1q_u32", "MSG2", "MSG1", "">>,
      <<"MSG3", "vsha1su0q_u32", "MSG3", "MSG0", "MSG1">>, <<"E1", "vsha1h_u32", "ABCD", "", "">>,
      <<"ABCD", "vsha1cq_u32", "ABCD", "E0", "TMP0">>, <<"TMP0", "vaddq_u32_dup", "MSG2", "K2", "">>,
      <<"MSG3", "vsha1su1q_u32", "MSG3", "MSG2", "">>, <<"MSG0", "vsha1su0q_u32", "MSG0", "MSG1", "MSG2">>,
      <<"E0", "vsha1h_u32", "ABCD", "", "">>, <<"ABCD", "vsha1pq_u32", "ABCD", "E1", "TMP1">>,
      <<"TMP1", "vaddq_u32_dup", "MSG3", "K2", "">>, <<"MSG0", "vsha1su1q_u32", "MSG0", "MSG3", "">>,
      <<"MSG1", "vsha1su0q_u32", "MSG1", "MSG2", "MSG3">>, <<"E1", "vsha1h_u32", "ABCD", "", "">>,
      <<"ABCD", "vsha1pq_u32", "ABCD", "E0", "TMP0">>, <<"TMP0", "vaddq_u32_dup", "MSG0", "K2", "">>,
      <<"MSG1", "vsha1su1q_u32", "MSG1", "MSG0", "">>, <<"MSG2", "vsha1su0q_u32", "MSG2", "MSG3", "MSG0">>,
      <<"E0", "vsha1h_u32", "ABCD", "", "">>, <<"ABCD", "vsha1pq_u32", "ABCD", "E1", "TMP1">>,
      <<"TMP1", "vaddq_u32_dup", "MSG1", "K2", "">>, <<"MSG2", "vsha1su1q_u32", "MSG2", "MSG1", "">>,
      <<"MSG3", "vsha1su0q_u32", "MSG3", "MSG0", "MSG1">>, <<"E1", "vsha1h_u32", "ABCD", "", "">>,
      <<"ABCD", "vsha1pq_u32", "ABCD", "E0", "TMP0">>, <<"TMP0", "vaddq_u32_dup", "MSG2", "K3", "">>,
      <<"MSG3", "vsha1su1q_u32", "MSG3", "MSG2", "">>, <<"MSG0", "vsha1su0q_u32", "MSG0", "MSG1", "MSG2">>,
      <<"E0", "vsha1h_u32", "ABCD", "", "">>, <<"ABCD", "vsha1pq_u32", "ABCD", "E1", "TMP1">>,
      <<"TMP1", "vaddq_u32_dup", "MSG3", "K3", "">>, <<"MSG0", "vsha1su1q_u32", "MSG0", "MSG3", "">>,
      <<"MSG1", "vsha1su0q_u32", "MSG1", "MSG2", "MSG3">>, <<"E1", "vsha1h_u32", "ABCD", "", "">>,
      <<"ABCD", "vsha1mq_u32", "ABCD", "E0", "TMP0">>, <<"TMP0", "vaddq_u32_dup", "MSG0", "K3", "">>,
      <<"MSG1", "vsha1su1q_u32", "MSG1", "MSG0", "">>, <<"MSG2", "vsha1su0q_u32", "MSG2", "MSG3", "MSG0">>,
      <<"E0", "vsha1h_u32", "ABCD", "", "">>, <<"ABCD", "vsha1mq_u32", "ABCD", "E1", "TMP1">>,
      <<"TMP1", "vaddq_u32_dup", "MSG1", "K3", "">>, <<"MSG2", "vsha1su1q_u32", "MSG2", "MSG1", "">>,
      <<"MSG3", "vsha1su0q_u32", "MSG3", "MSG0", "MSG1">>, <<"E1", "vsha1h_u32", "ABCD", "", "">>,
      <<"ABCD", "vsha1mq_u32", "ABCD", "E0", "TMP0">>, <<"TMP0", "vaddq_u32_dup", "MSG2", "K3", "">>,
      <<"MSG3", "vsha1su1q_u32", "MSG3", "MSG2", "">>, <<"MSG0", "vsha1su0q_u32", "MSG0", "MSG1", "MSG2">>,
      <<"E0", "vsha1h_u32", "ABCD", "", "">>, <<"ABCD", "vsha1mq_u32", "ABCD", "E1", "TMP1">>,
      <<"TMP1", "vaddq_u32_dup", "MSG3", "K4", "">>, <<"MSG0", "vsha1su1q_u32", "MSG0", "MSG3", "">>,
      <<"MSG1", "vsha1su0q_u32", "MSG1", "MSG2", "MSG3">>, <<"E1", "vsha1h_u32", "ABCD", "", "">>,
      <<"ABCD", "vsha1mq_u32", "ABCD", "E0", "TMP0">>, <<"TMP0", "vaddq_u32_dup", "MSG0", "K4", "">>,
      <<"MSG1", "vsha1su1q_u32", "MSG1", "MSG0", "">>, <<"MSG2", "vsha1su0q_u32", "MSG2", "MSG3", "MSG0">>,
      <<"E0", "vsha1h_u32", "ABCD", "", "">>, <<"ABCD", "vsha1pq_u32", "ABCD", "E1", "TMP1">>,
      <<"TMP1", "vaddq_u32_dup", "MSG1", "K4", "">>, <<"MSG2", "vsha1su1q_u32", "MSG2", "MSG1", "">>,
      <<"MSG3", "vsha1su0q_u32", "MSG3", "MSG0", "MSG1">>, <<"E1", "vsha1h_u32", "ABCD", "", "">>,
      <<"ABCD", "vsha1pq_u32", "ABCD", "E0", "TMP0">>, <<"TMP0", "vaddq_u32_dup", "MSG2", "K4", "">>,
      <<"MSG3", "vsha1su1q_u32", "MSG3", "MSG2", "">>, <<"MSG0", "vsha1su0q_u32", "MSG0", "MSG1", "MSG2">>,
      <<"E0", "vsha1h_u32", "ABCD", "", "">>, <<"ABCD", "vsha1pq_u32", "ABCD", "E1", "TMP1">>,
      <<"TMP1", "vaddq_u32_dup", "MSG3", "K4", "">>, <<"MSG0", "vsha1su1q_u32", "MSG0", "MSG3", "">>,
      <<"E1", "vsha1h_u32", "ABCD", "", "">>, <<"ABCD", "vsha1pq_u32", "ABCD", "E0", "TMP0">>,
      <<"E0", "vsha1h_u32", "ABCD", "", "">>, <<"ABCD", "vsha1pq_u32", "ABCD", "E1", "TMP1">>,
      <<"E0", "add_u32", "E0", "E0_SAVED", "">>, <<"ABCD", "vaddq_u32", "ABCD_SAVED", "ABCD", "">>
    >>

\* is the statement compiled: the byte reversal is under #ifdef MANGO_LITTLE_ENDIAN
ArmCompiled(s, le) == s[2] # "vrev32q_u8" \/ le

ArmValue(v, s, blk, le) ==
    CASE s[2] = "copy"          -> v[s[3]]
      [] s[2] = "vld1q_u32"     -> vld1q_u32(SubSeq(blk, s[3] + 1, s[3] + 16), le)
      [] s[2] = "vrev32q_u8"    -> vrev32q_u8(v[s[3]])
      [] s[2] = "vaddq_u32_dup" -> vaddq_u32(v[s[3]], vdupq_n_u32(RoundConstant(s[4])))
      [] s[2] = "vsha1h_u32"    -> vsha1h_u32(v[s[3]][1])
      [] s[2] = "vsha1cq_u32"   -> vsha1cq_u32(v[s[3]], v[s[4]], v[s[5]])
      [] s[2] = "vsha1pq_u32"   -> vsha1pq_u32(v[s[3]], v[s[4]], v[s[5]])
      [] s[2] = "vsha1mq_u32"   -> vsha1mq_u32(v[s[3]], v[s[4]], v[s[5]])
      [] s[2] = "vsha1su0q_u32" -> vsha1su0q_u32(v[s[3]], v[s[4]], v[s[5]])
      [] s[2] = "vsha1su1q_u32" -> vsha1su1q_u32(v[s[3]], v[s[4]])
      [] s[2] = "vaddq_u32"     -> vaddq_u32(v[s[3]], v[s[4]])
      [] s[2] = "add_u32"       -> Add32(v[s[3]], v[s[4]])

ArmExec(v, s, blk, le) ==
    IF ArmCompiled(s, le) THEN [v EXCEPT ![s[1]] = ArmValue(v, s, blk, le)] ELSE v

\* statements lo..hi in order
RECURSIVE ArmRun(_, _, _, _, _)
ArmRun(v, blk, le, lo, hi) ==
    IF lo > hi THEN v
    ELSE IF lo = hi THEN ArmExec(v, ArmStatements[lo], blk, le)
    ELSE LET Rest(left) == After(left, ArmRun(left, blk, le, ((lo + hi) \div 2) + 1, hi))
         IN  Rest(ArmRun(v, blk, le, lo, (lo + hi) \div 2))

\* one iteration of the while loop: s = <<ABCD, E0>>
ArmBlock(s, blk, le) ==
    LET Out(v) == <<v.ABCD, v.E0>>
    IN  Out(ArmRun([ABCD |-> s[1], E0 |-> s[2], ABCD_SAVED |-> Undef, E0_SAVED |-> Undef,
                    TMP0 |-> Undef, TMP1 |-> Undef, MSG0 |-> Undef, MSG1 |-> Undef,
                    MSG2 |-> Undef, MSG3 |-> Undef, E1 |-> Undef],
                   blk, le, 1, Len(ArmStatements)))

\* A block loop that starts every block from the state the call was given.
ArmLoopNotCarrying(s, data, blocks, le) ==
    IF blocks > 0
    THEN ArmBlock(s, SubSeq(data, (64 * blocks) - 63, 64 * blocks), le)
    ELSE s

RECURSIVE ArmLoop(_, _, _, _)
ArmLoop(s, data, blocks, le) ==
    IF blocks > 0
    THEN LET Rest(next) ==
                 After(next, ArmLoop(next, SubSeq(data, 65, Len(data)), blocks - 1, le))
         IN  Rest(ArmBlock(s, SubSeq(data, 1, 64), le))
    ELSE s

arm_sha1_transform(state, data, blocks, le) ==
    LET Save(s) == <<s[1][1], s[1][2], s[1][3], s[1][4], s[2]>>
    IN  Save(ArmLoop(<< <<state[1], state[2], state[3], state[4]>>, state[5] >>,
                     data, blocks, le))

(***************************************************************************)
(* Intel SHA1 (x86 is little-endian)                                       *)
(***************************************************************************)
\* the sixteen bytes of a vector, byte 0 first
VecBytes(v) ==
    StoreHost32(v[1], TRUE) \o StoreHost32(v[2], TRUE) \o StoreHost32(v[3], TRUE)
    \o StoreHost32(v[4], TRUE)

BytesVec(b) ==
    << LoadHost32(SubSeq(b, 1, 4), TRUE), LoadHost32(SubSeq(b, 5, 8), TRUE),
       LoadHost32(SubSeq(b, 9, 12), TRUE), LoadHost32(SubSeq(b, 13, 16), TRUE) >>

_mm_loadu_si128(p) == BytesVec(p)

_mm_shuffle_epi8(a, b) ==
    LET Pick(ab, bb) ==
            [i \in 1..16 |-> IF bb[i] >= 128 THEN 0 ELSE ab[(bb[i] % 16) + 1]] \o <<>>
    IN  BytesVec(Pick(VecBytes(a), VecBytes(b)))

_mm_shuffle_epi32(a, imm8) ==
    << a[(imm8 % 4) + 1], a[((imm8 \div 4) % 4) + 1],
       a[((imm8 \div 16) % 4) + 1], a[((imm8 \div 64) % 4) + 1] >>

_mm_add_epi32(a, b) ==
    <<Add32(a[1], b[1]), Add32(a[2], b[2]), Add32(a[3], b[3]), Add32(a[4], b[4])>>

_mm_xor_si128(a, b) ==
    <<Xor32(a[1], b[1]), Xor32(a[2], b[2]), Xor32(a[3], b[3]), Xor32(a[4], b[4])>>

_mm_and_si128(a, b) ==
    <<And32(a[1], b[1]), And32(a[2], b[2]), And32(a[3], b[3]), And32(a[4], b[4])>>

_mm_setzero_si128 == <<Zero32, Zero32, Zero32, Zero32>>

_mm_insert_epi32(a, i, imm8) == [a EXCEPT ![imm8 + 1] = i]

_mm_extract_epi32(a, imm8) == a[imm8 + 1]

\* f0..f3 and K0..K3 of SHA1RNDS4, selected by the immediate
Rnds4F(func, B, C, D) ==
    CASE func = 0 -> Xor32(And32(B, C), And32(Not32(B), D))
      [] func = 1 -> Xor32(Xor32(B, C), D)
      [] func = 2 -> Xor32(Xor32(And32(B, C), And32(B, D)), And32(C, D))
      [] func = 3 -> Xor32(Xor32(B, C), D)

Rnds4K(func) == CASE func = 0 -> K1 [] func = 1 -> K2 [] func = 2 -> K3 [] func = 3 -> K4

\* one round of SHA1RNDS4: s = <<A, B, C, D, E>>, w the round's word
Rnds4Step(func, s, w) ==
    After(s,
    << Sum32(<<Rnds4F(func, s[2], s[3], s[4]), u32_rol(s[1], 5), w, s[5], Rnds4K(func)>>),
       s[1], u32_rol(s[2], 30), s[3], s[4] >>)

\* a = A:B:C:D (A in lane 3), b = W0+E:W1:W2:W3 (W0+E in lane 3)
_mm_sha1rnds4_epu32(a, b, func) ==
    LET Out(s) == <<s[4], s[3], s[2], s[1]>>
    IN  Out(Rnds4Step(func,
              Rnds4Step(func,
                Rnds4Step(func,
                  Rnds4Step(func, <<a[4], a[3], a[2], a[1], Zero32>>, b[4]), b[3]), b[2]), b[1]))

_mm_sha1nexte_epu32(a, b) == [b EXCEPT ![4] = Add32(b[4], u32_rol(a[4], 30))]

_mm_sha1msg1_epu32(a, b) ==
    << Xor32(b[3], a[1]), Xor32(b[4], a[2]), Xor32(a[1], a[3]), Xor32(a[2], a[4]) >>

_mm_sha1msg2_epu32(a, b) ==
    LET W16 == u32_rol(Xor32(a[4], b[3]), 1)
        W17 == u32_rol(Xor32(a[3], b[2]), 1)
        W18 == u32_rol(Xor32(a[2], b[1]), 1)
        W19 == u32_rol(Xor32(a[1], W16), 1)
    IN  <<W19, W18, W17, W16>>

\* _mm_set_epi64x(0xffffffff00000000ull, 0x0000000000000000ull)
e_mask == <<Zero32, Zero32, Zero32, Ones32>>

\* _mm_set_epi64x(0x0001020304050607ull, 0x08090a0b0c0d0e0full)
shuf_mask ==
    <<U32(\h0C0D, \h0E0F), U32(\h0809, \h0A0B), U32(\h0405, \h0607), U32(\h0001, \h0203)>>

\* the statements of the while-loop body of intel_sha1_transform, in source order
IntelStatements ==
    <<
      <<"abcd_save", "copy", "abcd", "", "">>, <<"e_save", "copy", "e0", "", "">>,
      <<"msg0", "_mm_loadu_si128", 0, "", "">>, <<"msg1", "_mm_loadu_si128", 16, "", "">>,
      <<"msg2", "_mm_loadu_si128", 32, "", "">>, <<"msg3", "_mm_loadu_si128", 48, "", "">>,
      <<"msg0", "_mm_shuffle_epi8", "msg0", "shuf_mask", "">>, <<"e0", "_mm_add_epi32", "e0", "msg0", "">>,
      <<"e1", "copy", "abcd", "", "">>, <<"abcd", "_mm_sha1rnds4_epu32", "abcd", "e0", 0>>,
      <<"msg1", "_mm_shuffle_epi8", "msg1", "shuf_mask", "">>, <<"e1", "_mm_sha1nexte_epu32", "e1", "msg1", "">>,
      <<"e0", "copy", "abcd", "", "">>, <<"abcd", "_mm_sha1rnds4_epu32", "abcd", "e1", 0>>,
      <<"msg0", "_mm_sha1msg1_epu32", "msg0", "msg1", "">>, <<"msg2", "_mm_shuffle_epi8", "msg2", "shuf_mask", "">>,
      <<"e0", "_mm_sha1nexte_epu32", "e0", "msg2", "">>, <<"e1", "copy", "abcd", "", "">>,
      <<"abcd", "_mm_sha1rnds4_epu32", "abcd", "e0", 0>>, <<"msg1", "_mm_sha1msg1_epu32", "msg1", "msg2", "">>,
      <<"msg0", "_mm_xor_si128", "msg0", "msg2", "">>, <<"msg3", "_mm_shuffle_epi8", "msg3", "shuf_mask", "">>,
      <<"e1", "_mm_sha1nexte_epu32", "e1", "msg3", "">>, <<"e0", "copy", "abcd", "", "">>,
      <<"msg0", "_mm_sha1msg2_epu32", "msg0", "msg3", "">>, <<"abcd", "_mm_sha1rnds4_epu32", "abcd", "e1", 0>>,
      <<"msg2", "_mm_sha1msg1_epu32", "msg2", "msg3", "">>, <<"msg1", "_mm_xor_si128", "msg1", "msg3", "">>,
      <<"e0", "_mm_sha1nexte_epu32", "e0", "msg0", "">>, <<"e1", "copy", "abcd", "", "">>,
      <<"msg1", "_mm_sha1msg2_epu32", "msg1", "msg0", "">>, <<"abcd", "_mm_sha1rnds4_epu32", "abcd", "e0", 0>>,
      <<"msg3", "_mm_sha1msg1_epu32", "msg3", "msg0", "">>, <<"msg2", "_mm_xor_si128", "msg2", "msg0", "">>,
      <<"e1", "_mm_sha1nexte_epu32", "e1", "msg1", "">>, <<"e0", "copy", "abcd", "", "">>,
      <<"msg2", "_mm_sha1msg2_epu32", "msg2", "msg1", "">>, <<"abcd", "_mm_sha1rnds4_epu32", "abcd", "e1", 1>>,
      <<"msg0", "_mm_sha1msg1_epu32", "msg0", "msg1", "">>, <<"msg3", "_mm_xor_si128", "msg3", "msg1", "">>,
      <<"e0", "_mm_sha1nexte_epu32", "e0", "msg2", "">>, <<"e1", "copy", "abcd", "", "">>,
      <<"msg3", "_mm_sha1msg2_epu32", "msg3", "msg2", "">>, <<"abcd", "_mm_sha1rnds4_epu32", "abcd", "e0", 1>>,
      <<"msg1", "_mm_sha1msg1_epu32", "msg1", "msg2", "">>, <<"msg0", "_mm_xor_si128", "msg0", "msg2", "">>,
      <<"e1", "_mm_sha1nexte_epu32", "e1", "msg3", "">>, <<"e0", "copy", "abcd", "", "">>,
      <<"msg0", "_mm_sha1msg2_epu32", "msg0", "msg3", "">>, <<"abcd", "_mm_sha1rnds4_epu32", "abcd", "e1", 1>>,
      <<"msg2", "_mm_sha1msg1_epu32", "msg2", "msg3", "">>, <<"msg1", "_mm_xor_si128", "msg1", "msg3", "">>,
      <<"e0", "_mm_sha1nexte_epu32", "e0", "msg0", "">>, <<"e1", "copy", "abcd", "", "">>,
      <<"msg1", "_mm_sha1msg2_epu32", "msg1", "msg0", "">>, <<"abcd", "_mm_sha1rnds4_epu32", "abcd", "e0", 1>>,
      <<"msg3", "_mm_sha1msg1_epu32", "msg3", "msg0", "">>, <<"msg2", "_mm_xor_si128", "msg2", "msg0", "">>,
      <<"e1", "_mm_sha1nexte_epu32", "e1", "msg1", "">>, <<"e0", "copy", "abcd", "", "">>,
      <<"msg2", "_mm_sha1msg2_epu32", "msg2", "msg1", "">>, <<"abcd", "_mm_sha1rnds4_epu32", "abcd", "e1", 1>>,
      <<"msg0", "_mm_sha1msg1_epu32", "msg0", "msg1", "">>, <<"msg3", "_mm_xor_si128", "msg3", "msg1", "">>,
      <<"e0", "_mm_sha1nexte_epu32", "e0", "msg2", "">>, <<"e1", "copy", "abcd", "", "">>,
      <<"msg3", "_mm_sha1msg2_epu32", "msg3", "msg2", "">>, <<"abcd", "_mm_sha1rnds4_epu32", "abcd", "e0", 2>>,
      <<"msg1", "_mm_sha1msg1_epu32", "msg1", "msg2", "">>, <<"msg0", "_mm_xor_si128", "msg0", "msg2", "">>,
      <<"e1", "_mm_sha1nexte_epu32", "e1", "msg3", "">>, <<"e0", "copy", "abcd", "", "">>,
      <<"msg0", "_mm_sha1msg2_epu32", "msg0", "msg3", "">>, <<"abcd", "_mm_sha1rnds4_epu32", "abcd", "e1", 2>>,
      <<"msg2", "_mm_sha1msg1_epu32", "msg2", "msg3", "">>, <<"msg1", "_mm_xor_si128", "msg1", "msg3", "">>,
      <<"e0", "_mm_sha1nexte_epu32", "e0", "msg0", "">>, <<"e1", "copy", "abcd", "", "">>,
      <<"msg1", "_mm_sha1msg2_epu32", "msg1", "msg0", "">>, <<"abcd", "_mm_sha1rnds4_epu32", "abcd", "e0", 2>>,
      <<"msg3", "_mm_sha1msg1_epu32", "msg3", "msg0", "">>, <<"msg2", "_mm_xor_si128", "msg2", "msg0", "">>,
      <<"e1", "_mm_sha1nexte_epu32", "e1", "msg1", "">>, <<"e0", "copy", "abcd", "", "">>,
      <<"msg2", "_mm_sha1msg2_epu32", "msg2", "msg1", "">>, <<"abcd", "_mm_sha1rnds4_epu32", "abcd", "e1", 2>>,
      <<"msg0", "_mm_sha1msg1_epu32", "msg0", "msg1", "">>, <<"msg3", "_mm_xor_si128", "msg3", "msg1", "">>,
      <<"e0", "_mm_sha1nexte_epu32", "e0", "msg2", "">>, <<"e1", "copy", "abcd", "", "">>,
      <<"msg3", "_mm_sha1msg2_epu32", "msg3", "msg2", "">>, <<"abcd", "_mm_sha1rnds4_epu32", "abcd", "e0", 2>>,
      <<"msg1", "_mm_sha1msg1_epu32", "msg1", "msg2", "">>, <<"msg0", "_mm_xor_si128", "msg0", "msg2", "">>,
      <<"e1", "_mm_sha1nexte_epu32", "e1", "msg3", "">>, <<"e0", "copy", "abcd", "", "">>,
      <<"msg0", "_mm_sha1msg2_epu32", "msg0", "msg3", "">>, <<"abcd", "_mm_sha1rnds4_epu32", "abcd", "e1", 3>>,
      <<"msg2", "_mm_sha1msg1_epu32", "msg2", "msg3", "">>, <<"msg1", "_mm_xor_si128", "msg1", "msg3", "">>,
      <<"e0", "_mm_sha1nexte_epu32", "e0", "msg0", "">>, <<"e1", "copy", "abcd", "", "">>,
      <<"msg1", "_mm_sha1msg2_epu32", "msg1", "msg0", "">>, <<"abcd", "_mm_sha1rnds4_epu32", "abcd", "e0", 3>>,
      <<"msg3", "_mm_sha1msg1_epu32", "msg3", "msg0", "">>, <<"msg2", "_mm_xor_si128", "msg2", "msg0", "">>,
      <<"e1", "_mm_sha1nexte_epu32", "e1", "msg1", "">>, <<"e0", "copy", "abcd", "", "">>,
      <<"msg2", "_mm_sha1msg2_epu32", "msg2", "msg1", "">>, <<"abcd", "_mm_sha1rnds4_epu32", "abcd", "e1", 3>>,
      <<"msg3", "_mm_xor_si128", "msg3", "msg1", "">>, <<"e0", "_mm_sha1nexte_epu32", "e0", "msg2", "">>,
      <<"e1", "copy", "abcd", "", "">>, <<"msg3", "_mm_sha1msg2_epu32", "msg3", "msg2", "">>,
      <<"abcd", "_mm_sha1rnds4_epu32", "abcd", "e0", 3>>, <<"e1", "_mm_sha1nexte_epu32", "e1", "msg3", "">>,
      <<"e0", "copy", "abcd", "", "">>, <<"abcd", "_mm_sha1rnds4_epu32", "abcd", "e1", 3>>,
      <<"e0", "_mm_sha1nexte_epu32", "e0", "e_save", "">>, <<"abcd", "_mm_add_epi32", "abcd", "abcd_save", "">>
    >>

IntelValue(v, s, blk) ==
    CASE s[2] = "copy"                -> v[s[3]]
      [] s[2] = "_mm_loadu_si128"     -> _mm_loadu_si128(SubSeq(blk, s[3] + 1, s[3] + 16))
      [] s[2] = "_mm_shuffle_epi8"    -> _mm_shuffle_epi8(v[s[3]], v[s[4]])
      [] s[2] = "_mm_add_epi32"       -> _mm_add_epi32(v[s[3]], v[s[4]])
      [] s[2] = "_mm_xor_si128"       -> _mm_xor_si128(v[s[3]], v[s[4]])
      [] s[2] = "_mm_sha1rnds4_epu32" -> _mm_sha1rnds4_epu32(v[s[3]], v[s[4]], s[5])
      [] s[2] = "_mm_sha1nexte_epu32" -> _mm_sha1nexte_epu32(v[s[3]], v[s[4]])
      [] s[2] = "_mm_sha1msg1_epu32"  -> _mm_sha1msg1_epu32(v[s[3]], v[s[4]])
      [] s[2] = "_mm_sha1msg2_epu32"  -> _mm_sha1msg2_epu32(v[s[3]], v[s[4]])

IntelExec(v, s, blk) == [v EXCEPT ![s[1]] = IntelValue(v, s, blk)]

RECURSIVE IntelRun(_, _, _, _)
IntelRun(v, blk, lo, hi) ==
    IF lo > hi THEN v
    ELSE IF lo = hi THEN IntelExec(v, IntelStatements[lo], blk)
    ELSE LET Rest(left) == After(left, IntelRun(left, blk, ((lo + hi) \div 2) + 1, hi))
         IN  Rest(IntelRun(v, blk, lo, (lo + hi) \div 2))

\* one iteration of the while loop: s = <<abcd, e0>>
IntelBlock(s, blk) ==
    LET Out(v) == <<v.abcd, v.e0>>
    IN  Out(IntelRun([abcd |-> s[1], e0 |-> s[2], abcd_save |-> Undef, e_save |-> Undef,
                      msg0 |-> Undef, msg1 |-> Undef, msg2 |-> Undef, msg3 |-> Undef,
                      e1 |-> Undef, shuf_mask |-> shuf_mask],
                     blk, 1, Len(IntelStatements)))

RECURSIVE IntelLoop(_, _, _)
IntelLoop(s, data, blocks) ==
    IF blocks > 0
    THEN LET Rest(next) ==
                 After(next, IntelLoop(next, SubSeq(data, 65, Len(data)), blocks - 1))
         IN  Rest(IntelBlock(s, SubSeq(data, 1, 64)))
    ELSE s

\* The state stored without the shuffle of line 445.
intel_sha1_transform_unshuffled(digest, data, blocks) ==
    LET Store(abcd, e0) == <<abcd[1], abcd[2], abcd[3], abcd[4], _mm_extract_epi32(e0, 3)>>
        Save(s) == Store(s[1], s[2])
    IN  Save(IntelLoop(
             << _mm_shuffle_epi32(<<digest[1], digest[2], digest[3], digest[4]>>, 27),
                _mm_and_si128(_mm_insert_epi32(_mm_setzero_si128, digest[5], 3), e_mask) >>,
             data, blocks))

intel_sha1_transform(digest, data, blocks) ==
    LET Store(abcd, e0) == <<abcd[1], abcd[2], abcd[3], abcd[4], _mm_extract_epi32(e0, 3)>>
        Save(s) == Store(_mm_shuffle_epi32(s[1], 27), s[2])
    IN  Save(IntelLoop(
             << _mm_shuffle_epi32(<<digest[1], digest[2], digest[3], digest[4]>>, 27),
                _mm_and_si128(_mm_insert_epi32(_mm_setzero_si128, digest[5], 3), e_mask) >>,
             data, blocks))

(***************************************************************************)
(* 64-bit values (size_t, u64, pointer offsets): four 16-bit limbs, most   *)
(* significant first.                                                      *)
(***************************************************************************)
Zero64 == <<0, 0, 0, 0>>

\* a + b mod 2^64
Add64(a, b) ==
    LET s4 == a[4] + b[4]
        s3 == a[3] + b[3] + (s4 \div Half)
        s2 == a[2] + b[2] + (s3 \div Half)
        s1 == a[1] + b[1] + (s2 \div Half)
    IN  <<s1 % Half, s2 % Half, s3 % Half, s4 % Half>>

\* a < b, unsigned
Less64(a, b) ==
    IF a[1] # b[1] THEN a[1] < b[1]
    ELSE IF a[2] # b[2] THEN a[2] < b[2]
    ELSE IF a[3] # b[3] THEN a[3] < b[3]
    ELSE a[4] < b[4]

\* u32(x) of a 64-bit x
Truncate32(x) == <<x[3], x[4]>>

\* an unsigned 32-bit value as 64 bits
Widen32(x) == <<0, 0, x[1], x[2]>>

\* a signed 32-bit value (two's complement) as 64 bits
SignExtend32(x) == IF x[1] >= 32768 THEN <<65535, 65535, x[1], x[2]>> ELSE <<0, 0, x[1], x[2]>>

\* x * 8 mod 2^64
\* The bit length computed from the low 32 bits of the size only.
TimesEightOfLow32(x) ==
    << 0, x[3] \div 8192, ((x[3] * 8) % Half) + (x[4] \div 8192), (x[4] * 8) % Half >>

TimesEight64(x) ==
    << ((x[1] * 8) % Half) + (x[2] \div 8192), ((x[2] * 8) % Half) + (x[3] \div 8192),
       ((x[3] * 8) % Half) + (x[4] \div 8192), (x[4] * 8) % Half >>

\* the eight bytes ustore64be writes
ustore64be(x) ==
    << x[1] \div 256, x[1] % 256, x[2] \div 256, x[2] % 256,
       x[3] \div 256, x[3] % 256, x[4] \div 256, x[4] % 256 >>

\* the 32 bits of n * 64 for an int 0 <= n < 2^26; as an int the product
\* overflows when bit 31 is set
IntTimes64(n) == <<n \div 1024, (n % 1024) * 64>>

IntOverflows(p) == p[1] >= 32768

(***************************************************************************)
(* The caller's buffer (ConstMemory): size bytes at address.  Its first    *)
(* bytes are text where a text is given; the others follow a pattern of    *)
(* their offset.  Offsets are 64-bit and relative to memory.address.  A    *)
(* buffer whose address is "null" has no bytes whatever its size says.     *)
(***************************************************************************)
PatternByte(seed, off) ==
    (seed + (7 * off[4]) + (3 * (off[4] \div 256)) + (5 * off[3]) + (11 * off[2])
     + (13 * off[1])) % 256

Content(mem, off) ==
    IF off[1] = 0 /\ off[2] = 0 /\ off[3] = 0 /\ off[4] < Len(mem.text)
    THEN mem.text[off[4] + 1]
    ELSE PatternByte(mem.seed, off)

\* the n bytes at offsets lo .. lo + n - 1
MemoryBytes(mem, lo, n) == [i \in 1..n |-> Content(mem, Add64(lo, <<0, 0, 0, i - 1>>))] \o <<>>

\* are the len bytes from lo inside a buffer of the given size
RangeInside(lo, len, bufsize) ==
    len = Zero64 \/ (~Less64(Add64(lo, len), lo) /\ ~Less64(bufsize, Add64(lo, len)))

(***************************************************************************)
(* mango::sha1(ConstMemory memory).  A frame holds the locals of one call  *)
(* and, as history, the transform calls made, the reads of the caller's    *)
(* buffer, the ranges written, the calls of getCPUFlags() and the runs of  *)
(* the byte swap of lines 665-671.                                         *)
(***************************************************************************)
\* The initial hash value without its fifth word.
IVFourWords ==
    << U32(\h6745, \h2301), U32(\hEFCD, \hAB89), U32(\h98BA, \hDCFE), U32(\h1032, \h5476) >>

\* hash.data after lines 616-620
IV ==
    << U32(\h6745, \h2301), U32(\hEFCD, \hAB89), U32(\h98BA, \hDCFE),
       U32(\h1032, \h5476), U32(\hC3D2, \hE1F0) >>

\* an indeterminate byte of the scratch block
Uninit == -1

\* a hash state the model does not compute
Untracked == <<>>

Tracked(h) == Len(h) = 5

\* the most blocks of one transform call whose result is computed
MaxTrackedBlocks == 2

Entry ==
    [hash |-> Untracked, transform |-> "", size |-> Zero32, data |-> Zero64,
     block_count |-> 0, block |-> [i \in 1..64 |-> Uninit],
     calls |-> <<>>, reads |-> <<>>, writes |-> {}, queries |-> 0, swaps |-> 0]

\* a store of len bytes at offset lo of hash.data or of block, or at the
\* pointer data
Write(base, lo, len) == [base |-> base, lo |-> lo, len |-> len]

\* The flag tests of lines 626 and 632 inverted (== 0 for != 0).
SelectTransformInverted(b, flags) ==
    IF b = "arm" /\ "ARM_SHA1" \notin flags THEN "arm_sha1_transform"
    ELSE IF b = "intel" /\ "INTEL_SHA" \notin flags THEN "intel_sha1_transform"
    ELSE "generic_sha1_transform"

\* The backend the build has compiled taken without a test of the flags.
SelectTransformUnchecked(b, flags) ==
    IF b = "arm" THEN "arm_sha1_transform"
    ELSE IF b = "intel" THEN "intel_sha1_transform"
    ELSE "generic_sha1_transform"

\* the compile-time and run-time choice of lines 622-636
SelectTransform(b, flags) ==
    IF b = "arm" /\ "ARM_SHA1" \in flags THEN "arm_sha1_transform"
    ELSE IF b = "intel" /\ "INTEL_SHA" \in flags THEN "intel_sha1_transform"
    ELSE "generic_sha1_transform"

\* the calls of getCPUFlags() in lines 625-636
FlagQueries(b) == IF b \in {"arm", "intel"} THEN 1 ELSE 0

\* what a call through the function pointer leaves in hash.data
Transform(fn, le, h, bytes, n) ==
    IF ~Tracked(h) \/ n > MaxTrackedBlocks THEN Untracked
    ELSE CASE fn = "generic_sha1_transform" -> generic_sha1_transform(h, bytes, n)
           [] fn = "arm_sha1_transform"     -> arm_sha1_transform(h, bytes, n, le)
           [] fn = "intel_sha1_transform"   -> intel_sha1_transform(h, bytes, n)

\* <<offset, width>> of the loads one loop iteration of a backend makes from data
BlockLoads(fn) ==
    CASE fn = "generic_sha1_transform" -> {<<i * 4, 4>> : i \in 0..15}
      [] fn = "arm_sha1_transform" ->
            {<<ArmStatements[k][3], 16>> :
                 k \in {j \in DOMAIN ArmStatements : ArmStatements[j][2] = "vld1q_u32"}}
      [] fn = "intel_sha1_transform" ->
            {<<IntelStatements[k][3], 16>> :
                 k \in {j \in DOMAIN IntelStatements : IntelStatements[j][2] = "_mm_loadu_si128"}}

\* the number of leading bytes of data a call with n blocks reads from
TransformExtent(fn, n) ==
    IF n <= 0 THEN Zero64
    ELSE LET last == CHOOSE e \in {l[1] + l[2] : l \in BlockLoads(fn)} :
                         \A l \in BlockLoads(fn) : l[1] + l[2] <= e
         IN  Add64(Widen32(IntTimes64(n - 1)), <<0, 0, 0, last>>)

\* the stores of a backend: all through its first argument, hash.data
TransformStores(fn) ==
    CASE fn = "generic_sha1_transform" -> {Write("hash", 4 * i, 4) : i \in 0..4}
      [] fn = "arm_sha1_transform"     -> {Write("hash", 0, 16), Write("hash", 16, 4)}
      [] fn = "intel_sha1_transform"   -> {Write("hash", 0, 16), Write("hash", 16, 4)}

\* transform(hash.data, <base> + lo, n); bytes are the 64 * n bytes there
CallTransform(f, le, base, lo, n, bytes) ==
    LET Log(h) ==
            After(h,
              [f EXCEPT !.hash  = h,
                        !.calls = Append(@, [fn |-> f.transform, base |-> base, lo |-> lo,
                                             n |-> n, bytes |-> bytes, before |-> f.hash]),
                        !.reads = Append(@, [base |-> base, lo |-> lo,
                                             len |-> TransformExtent(f.transform, n)]),
                        !.writes = @ \cup TransformStores(f.transform)])
    IN  Log(Transform(f.transform, le, f.hash, bytes, n))

\* lines 638-644; widened says how the build evaluates data += block_count * 64
\* when the int product overflows: with the product widened to the pointer's
\* width, or wrapped to a negative int
FeedBlocks(f, mem, le, widened) ==
    LET size0   == Truncate32(mem.size)
        n       == (size0[1] * 1024) + (size0[2] \div 64)
        bytes   == IF n <= MaxTrackedBlocks THEN MemoryBytes(mem, Zero64, 64 * n) ELSE <<>>
        called  == CallTransform(f, le, "memory", Zero64, n, bytes)
        product == IntTimes64(n)
        step    == IF widened THEN Widen32(product) ELSE SignExtend32(product)
    IN  [called EXCEPT !.block_count = n,
                       !.data = Add64(Zero64, step),
                       !.size = Sub32(size0, product)]

\* how the build may evaluate the int product of line 643
ProductOutcomes(mem) ==
    IF IntOverflows(IntTimes64((mem.size[3] * 1024) + (mem.size[4] \div 64)))
    THEN {TRUE, FALSE} ELSE {TRUE}

\* a read outside the buffer faults or yields bytes that are not the buffer's
Fault == <<Uninit>>

Junk == {0, 255}

\* what the first transform call finds at data: the bytes of the buffer, or
\* for blocks at a null address a fault or bytes that are not a buffer's
FirstCallOutcomes(mem) ==
    IF mem.address = "null" /\ (Truncate32(mem.size)[1] > 0 \/ Truncate32(mem.size)[2] >= 64)
    THEN {"fault", "junk"} ELSE {"read"}

\* what std::memcpy(block, data, size) of line 648 may read
TailOutcomes(f, mem) ==
    IF f.size = Zero32 THEN {<<>>}
    ELSE IF mem.address # "null" /\ RangeInside(f.data, Widen32(f.size), mem.size)
    THEN {MemoryBytes(mem, f.data, f.size[2])}
    ELSE {Fault} \cup {[i \in 1..f.size[2] |-> j] \o <<>> : j \in Junk}

\* The memcpy of line 648 with its first two arguments exchanged.
CopyTailReversed(f, bytes) ==
    [f EXCEPT !.block = [i \in 1..64 |-> IF i = f.size[2] + 1 THEN 128 ELSE f.block[i]] \o <<>>,
              !.size  = Add32(f.size, U32(0, 1)),
              !.writes = @ \cup {Write("memory", f.data[4], f.size[2]),
                                 Write("block", f.size[2], 1)}]

\* lines 646-649, the memcpy having read bytes
CopyTail(f, bytes) ==
    [f EXCEPT !.block = [i \in 1..64 |-> IF i <= Len(bytes) THEN bytes[i]
                                         ELSE IF i = f.size[2] + 1 THEN 128
                                         ELSE f.block[i]] \o <<>>,
              !.size  = Add32(f.size, U32(0, 1)),
              !.reads = Append(@, [base |-> "memory", lo |-> f.data, len |-> Widen32(f.size)]),
              !.writes = @ \cup {Write("block", 0, f.size[2]), Write("block", f.size[2], 1)}]

\* std::memset(block + from, 0, count)
ZeroFill(blk, from, count) ==
    [i \in 1..64 |-> IF i > from /\ i <= from + count THEN 0 ELSE blk[i]] \o <<>>

\* The padding branch taken with the threshold one byte too low.
FitsOneBlockBelow56(f) == f.size[1] = 0 /\ f.size[2] <= 55

\* The padding branch taken with the threshold one byte too high.
FitsOneBlockUpTo57(f) == f.size[1] = 0 /\ f.size[2] <= 57

\* the condition of line 651
FitsOneBlock(f) == f.size[1] = 0 /\ f.size[2] <= 56

\* The zero fill of line 653 followed by a second store of the initial value.
PadShortResettingState(f) ==
    [f EXCEPT !.block = ZeroFill(f.block, f.size[2], 56 - f.size[2]),
              !.hash = IV,
              !.writes = @ \cup {Write("block", f.size[2], 56 - f.size[2])}
                           \cup {Write("hash", 4 * i, 4) : i \in 0..4}]

\* line 653
PadShort(f) ==
    [f EXCEPT !.block = ZeroFill(f.block, f.size[2], 56 - f.size[2]),
              !.writes = @ \cup {Write("block", f.size[2], 56 - f.size[2])}]

\* The first padding block given to the generic backend whatever was selected.
PadLongReselecting(f, le) ==
    LET filled == ZeroFill(f.block, f.size[2], 64 - f.size[2])
        called == CallTransform([f EXCEPT !.block = filled,
                                          !.transform = "generic_sha1_transform"],
                                le, "block", Zero64, 1, filled)
    IN  [called EXCEPT !.block = ZeroFill(filled, 0, 56),
                       !.writes = @ \cup {Write("block", f.size[2], 64 - f.size[2]),
                                          Write("block", 0, 56)}]

\* The two-block branch without the memset of line 659.
PadLongKeepingBlock(f, le) ==
    LET filled == ZeroFill(f.block, f.size[2], 64 - f.size[2])
        called == CallTransform([f EXCEPT !.block = filled], le, "block", Zero64, 1, filled)
    IN  [called EXCEPT !.writes = @ \cup {Write("block", f.size[2], 64 - f.size[2])}]

\* lines 657-659
PadLong(f, le) ==
    LET filled == ZeroFill(f.block, f.size[2], 64 - f.size[2])
        called == CallTransform([f EXCEPT !.block = filled], le, "block", Zero64, 1, filled)
    IN  [called EXCEPT !.block = ZeroFill(filled, 0, 56),
                       !.writes = @ \cup {Write("block", f.size[2], 64 - f.size[2]),
                                          Write("block", 0, 56)}]

\* The byte swap run on the state before the last transform call as well.
FinishSwappingFirst(f, mem, le) ==
    LET length == ustore64be(TimesEight64(mem.size))
        last   == [i \in 1..64 |-> IF i > 56 THEN length[i - 56] ELSE f.block[i]] \o <<>>
        early  == IF le
                  THEN [f EXCEPT !.hash = IF Tracked(f.hash)
                                          THEN [k \in 1..5 |-> byteswap(f.hash[k])] \o <<>>
                                          ELSE Untracked,
                                 !.swaps = @ + 1]
                  ELSE f
    IN  CallTransform([early EXCEPT !.block = last, !.writes = @ \cup {Write("block", 56, 8)}],
                      le, "block", Zero64, 1, last)

\* lines 662-663
Finish(f, mem, le) ==
    LET length == ustore64be(TimesEight64(mem.size))
        last   == [i \in 1..64 |-> IF i > 56 THEN length[i - 56] ELSE f.block[i]] \o <<>>
    IN  CallTransform([f EXCEPT !.block = last, !.writes = @ \cup {Write("block", 56, 8)}],
                      le, "block", Zero64, 1, last)

\* The digest words left in host order on every build.
SwapWordsOmitted(f, le) == f

\* The swap of lines 666-670 stopping after hash.data[3].
SwapWordsButLast(f, le) ==
    IF le
    THEN [f EXCEPT !.hash = IF Tracked(f.hash)
                            THEN << byteswap(f.hash[1]), byteswap(f.hash[2]),
                                    byteswap(f.hash[3]), byteswap(f.hash[4]), f.hash[5] >>
                            ELSE Untracked,
                   !.swaps = @ + 1,
                   !.writes = @ \cup {Write("hash", 4 * i, 4) : i \in 0..3}]
    ELSE f

\* lines 665-671
SwapWords(f, le) ==
    IF le
    THEN [f EXCEPT !.hash = IF Tracked(f.hash)
                            THEN << byteswap(f.hash[1]), byteswap(f.hash[2]),
                                    byteswap(f.hash[3]), byteswap(f.hash[4]),
                                    byteswap(f.hash[5]) >>
                            ELSE Untracked,
                   !.swaps = @ + 1,
                   !.writes = @ \cup {Write("hash", 4 * i, 4) : i \in 0..4}]
    ELSE f

\* the bytes of the returned SHA1 object, hash.data in memory order
DigestBytes(h, le) ==
    StoreHost32(h[1], le) \o StoreHost32(h[2], le) \o StoreHost32(h[3], le)
    \o StoreHost32(h[4], le) \o StoreHost32(h[5], le)

(***************************************************************************)
(* The process: a build (what the preprocessor selected), the cached CPU   *)
(* flags, and threads that each call sha1() once on a buffer.              *)
(***************************************************************************)
VARIABLES
    build,          \* "arm": __ARM_FEATURE_CRYPTO, "intel": MANGO_ENABLE_SHA, else "generic"
    littleEndian,   \* MANGO_LITTLE_ENDIAN
    cpuFlags,       \* getCPUFlags()
    memory,         \* memory[t]: the argument of thread t's call
    pc,             \* pc[t]: where thread t is in sha1()
    frame           \* frame[t]: the locals of thread t's call

vars == <<build, littleEndian, cpuFlags, memory, pc, frame>>

\* The SHA1 object left as declared at line 614: no initial value stored.
BeginWithoutInit(t) ==
    /\ pc[t] = "call"
    /\ pc' = [pc EXCEPT ![t] = "select"]
    /\ UNCHANGED <<build, littleEndian, cpuFlags, memory, frame>>

Begin(t) ==
    /\ pc[t] = "call"
    /\ frame' = [frame EXCEPT ![t].hash = IV,
                              ![t].writes = {Write("hash", 4 * i, 4) : i \in 0..4}]
    /\ pc' = [pc EXCEPT ![t] = "select"]
    /\ UNCHANGED <<build, littleEndian, cpuFlags, memory>>

Select(t) ==
    /\ pc[t] = "select"
    /\ frame' = [frame EXCEPT ![t].transform = SelectTransform(build, cpuFlags),
                              ![t].queries = @ + FlagQueries(build)]
    /\ pc' = [pc EXCEPT ![t] = "blocks"]
    /\ UNCHANGED <<build, littleEndian, cpuFlags, memory>>

FullBlocks(t) ==
    /\ pc[t] = "blocks"
    /\ \E widened \in ProductOutcomes(memory[t]), found \in FirstCallOutcomes(memory[t]) :
           LET Fed(f) == After(f, IF found = "junk"
                                  THEN [f EXCEPT !.hash = Untracked, !.calls[1].bytes = <<>>]
                                  ELSE f)
           IN  IF found = "fault"
               THEN /\ frame' = [frame EXCEPT ![t].reads =
                                    Append(@, [base |-> "memory", lo |-> Zero64,
                                               len |-> <<0, 0, 0, 64>>])]
                    /\ pc' = [pc EXCEPT ![t] = "fault"]
               ELSE /\ frame' = [frame EXCEPT ![t] =
                                    Fed(FeedBlocks(frame[t], memory[t], littleEndian, widened))]
                    /\ pc' = [pc EXCEPT ![t] = "tail"]
    /\ UNCHANGED <<build, littleEndian, cpuFlags, memory>>

\* The scratch block declared static: the one array of every call, so that the
\* bytes a call puts there are in the block of the other calls too.
TailCopyStaticBlock(t) ==
    /\ pc[t] = "tail"
    /\ \E bytes \in TailOutcomes(frame[t], memory[t]) :
           IF bytes = Fault
           THEN /\ frame' = [frame EXCEPT ![t].reads =
                                Append(@, [base |-> "memory", lo |-> frame[t].data,
                                           len |-> Widen32(frame[t].size)])]
                /\ pc' = [pc EXCEPT ![t] = "fault"]
           ELSE /\ frame' = [u \in DOMAIN frame |->
                                IF u = t THEN CopyTail(frame[t], bytes)
                                ELSE [frame[u] EXCEPT !.block = CopyTail(frame[t], bytes).block]]
                /\ pc' = [pc EXCEPT ![t] = "pad"]
    /\ UNCHANGED <<build, littleEndian, cpuFlags, memory>>

TailCopy(t) ==
    /\ pc[t] = "tail"
    /\ \E bytes \in TailOutcomes(frame[t], memory[t]) :
           IF bytes = Fault
           THEN /\ frame' = [frame EXCEPT ![t].reads =
                                Append(@, [base |-> "memory", lo |-> frame[t].data,
                                           len |-> Widen32(frame[t].size)])]
                /\ pc' = [pc EXCEPT ![t] = "fault"]
           ELSE /\ frame' = [frame EXCEPT ![t] = CopyTail(frame[t], bytes)]
                /\ pc' = [pc EXCEPT ![t] = "pad"]
    /\ UNCHANGED <<build, littleEndian, cpuFlags, memory>>

ShortPad(t) ==
    /\ pc[t] = "pad"
    /\ FitsOneBlock(frame[t])
    /\ frame' = [frame EXCEPT ![t] = PadShort(frame[t])]
    /\ pc' = [pc EXCEPT ![t] = "final"]
    /\ UNCHANGED <<build, littleEndian, cpuFlags, memory>>

LongPad(t) ==
    /\ pc[t] = "pad"
    /\ ~FitsOneBlock(frame[t])
    /\ frame' = [frame EXCEPT ![t] = PadLong(frame[t], littleEndian)]
    /\ pc' = [pc EXCEPT ![t] = "final"]
    /\ UNCHANGED <<build, littleEndian, cpuFlags, memory>>

Final(t) ==
    /\ pc[t] = "final"
    /\ frame' = [frame EXCEPT ![t] = Finish(frame[t], memory[t], littleEndian)]
    /\ pc' = [pc EXCEPT ![t] = "swap"]
    /\ UNCHANGED <<build, littleEndian, cpuFlags, memory>>

Return(t) ==
    /\ pc[t] = "swap"
    /\ frame' = [frame EXCEPT ![t] = SwapWords(frame[t], littleEndian)]
    /\ pc' = [pc EXCEPT ![t] = "done"]
    /\ UNCHANGED <<build, littleEndian, cpuFlags, memory>>

Next ==
    \/ \E t \in DOMAIN pc : Begin(t)
    \/ \E t \in DOMAIN pc : Select(t)
    \/ \E t \in DOMAIN pc : FullBlocks(t)
    \/ \E t \in DOMAIN pc : TailCopy(t)
    \/ \E t \in DOMAIN pc : ShortPad(t)
    \/ \E t \in DOMAIN pc : LongPad(t)
    \/ \E t \in DOMAIN pc : Final(t)
    \/ \E t \in DOMAIN pc : Return(t)

\* the builds: the Intel backend exists on x86 only, which is little-endian
Builds ==
    { [build |-> "generic", littleEndian |-> TRUE], [build |-> "generic", littleEndian |-> FALSE],
      [build |-> "arm", littleEndian |-> TRUE], [build |-> "arm", littleEndian |-> FALSE],
      [build |-> "intel", littleEndian |-> TRUE] }

Flags == {"ARM_SHA1", "INTEL_SHA"}

Size(n) == <<0, 0, 0, n>>

Abc == <<97, 98, 99>>

Nist56 ==
    << 97, 98, 99, 100, 98, 99, 100, 101, 99, 100, 101, 102, 100, 101,
       102, 103, 101, 102, 103, 104, 102, 103, 104, 105, 103, 104, 105, 106,
       104, 105, 106, 107, 105, 106, 107, 108, 106, 107, 108, 109, 107, 108,
       109, 110, 108, 109, 110, 111, 109, 110, 111, 112, 110, 111, 112, 113 >>

TextBuffer(text) == [address |-> "bytes", size |-> Size(Len(text)), text |-> text, seed |-> 0]

PatternBuffer(size, seed) == [address |-> "bytes", size |-> size, text |-> <<>>, seed |-> seed]

\* buffers whose digest the model computes
SmallBuffers ==
    {TextBuffer(<<>>), TextBuffer(Abc), TextBuffer(Nist56), PatternBuffer(Size(64), 1)}

\* buffers of 2^31 bytes and more: 2^31 + 1, 2^32, 2^32 + 1, 2^32 + 60,
\* 2^32 + 2^31 + 7 and 2^61 + 5 bytes
LargeBuffers ==
    { PatternBuffer(<<0, 0, 32768, 1>>, 1), PatternBuffer(<<0, 1, 0, 0>>, 1),
      PatternBuffer(<<0, 1, 0, 1>>, 1), PatternBuffer(<<0, 1, 0, 60>>, 1),
      PatternBuffer(<<0, 1, 32768, 7>>, 1), PatternBuffer(<<8192, 0, 0, 5>>, 1) }

\* every build with every value of the CPU flags
Configs ==
    { [build |-> b.build, littleEndian |-> b.littleEndian, cpuFlags |-> f] :
          b \in Builds, f \in SUBSET Flags }

InitWith(configs, threads, buffers) ==
    /\ \E c \in configs :
           build = c.build /\ littleEndian = c.littleEndian /\ cpuFlags = c.cpuFlags
    /\ memory \in [threads -> buffers]
    /\ pc = [t \in threads |-> "call"]
    /\ frame = [t \in threads |-> Entry]

Init == InitWith(Configs, {1}, SmallBuffers \cup LargeBuffers)

Spec == Init /\ [][Next]_vars

(***************************************************************************)
(* Calls of a backend on their own: a thread at "transform" holds a state  *)
(* in frame.hash and a pointer frame.data into its buffer, and calls the   *)
(* backend in frame.transform on the next blocks, any number per call.     *)
(***************************************************************************)
\* the most calls a thread makes
MaxCalls == 3

\* transform(hash.data, data, k); data += k * 64
CallOnBlocks(f, mem, le, k) ==
    [CallTransform(f, le, "memory", f.data, k, MemoryBytes(mem, f.data, 64 * k))
         EXCEPT !.data = Add64(f.data, Widen32(IntTimes64(k)))]

TransformCall(t, k) ==
    /\ pc[t] = "transform"
    /\ Len(frame[t].calls) < MaxCalls
    /\ RangeInside(frame[t].data, Widen32(IntTimes64(k)), memory[t].size)
    /\ frame' = [frame EXCEPT ![t] = CallOnBlocks(frame[t], memory[t], littleEndian, k)]
    /\ UNCHANGED <<build, littleEndian, cpuFlags, memory, pc>>

NextTransform == \E t \in DOMAIN pc : \E k \in 0..MaxTrackedBlocks : TransformCall(t, k)

\* a state that is not the initial one
OtherState ==
    << U32(\hFFFF, \hFFFF), U32(\h8000, \h0000), U32(\h0000, \h0001),
       U32(\h7FFF, \hFFFF), U32(\hDEAD, \hBEEF) >>

\* the states and block contents the calls start from
Starts == { [hash |-> IV, seed |-> 1], [hash |-> OtherState, seed |-> 2] }

InitTransform ==
    /\ \E c \in Configs :
           build = c.build /\ littleEndian = c.littleEndian /\ cpuFlags = c.cpuFlags
    /\ cpuFlags \in {{}, Flags}
    /\ \E s \in Starts :
           /\ memory = [t \in {1} |-> PatternBuffer(Size(64 * MaxTrackedBlocks), s.seed)]
           /\ frame = [t \in {1} |->
                         [Entry EXCEPT !.hash = s.hash,
                                       !.transform = SelectTransform(build, cpuFlags)]]
    /\ pc = [t \in {1} |-> "transform"]

SpecTransform == InitTransform /\ [][NextTransform]_vars

(***************************************************************************)
(* Reference SHA-1 (FIPS 180): the message schedule W[0..79], the 80       *)
(* rounds on the working variables <<a, b, c, d, e>>, the intermediate     *)
(* hash value, and the padding of a message.                               *)
(***************************************************************************)
\* f_t(b, c, d)
RefF(t, b, c, d) ==
    IF t < 20 THEN Or32(And32(b, c), And32(Not32(b), d))
    ELSE IF t < 40 THEN Xor32(Xor32(b, c), d)
    ELSE IF t < 60 THEN Or32(Or32(And32(b, c), And32(b, d)), And32(c, d))
    ELSE Xor32(Xor32(b, c), d)

\* K_t
RefK(t) ==
    IF t < 20 THEN U32(23170, 31129)
    ELSE IF t < 40 THEN U32(28377, 60321)
    ELSE IF t < 60 THEN U32(36635, 48348)
    ELSE U32(51810, 49622)

\* W extended by W[lo] .. W[hi], 16 <= lo; W[t] is w[t + 1]
RECURSIVE RefSchedule(_, _, _)
RefSchedule(w, lo, hi) ==
    IF lo = hi
    THEN Append(w, u32_rol(Xor32(Xor32(w[lo - 2], w[lo - 7]), Xor32(w[lo - 13], w[lo - 15])), 1))
    ELSE LET Rest(left) == After(left, RefSchedule(left, ((lo + hi) \div 2) + 1, hi))
         IN  Rest(RefSchedule(w, lo, (lo + hi) \div 2))

\* round t
RefRound(s, t, w) ==
    << Sum32(<<u32_rol(s[1], 5), RefF(t, s[2], s[3], s[4]), s[5], RefK(t), w[t + 1]>>),
       s[1], u32_rol(s[2], 30), s[3], s[4] >>

\* rounds lo .. hi
RECURSIVE RefRounds(_, _, _, _)
RefRounds(s, w, lo, hi) ==
    IF lo = hi THEN RefRound(s, lo, w)
    ELSE LET Rest(left) == After(left, RefRounds(left, w, ((lo + hi) \div 2) + 1, hi))
         IN  Rest(RefRounds(s, w, lo, (lo + hi) \div 2))

\* the hash value after the 64-byte block blk
RefCompress(h, blk) ==
    LET Word(i) == U32(blk[(4 * i) + 1] * 256 + blk[(4 * i) + 2],
                       blk[(4 * i) + 3] * 256 + blk[(4 * i) + 4])
        Rounds(w) == After(w, RefRounds(h, w, 0, 79))
        Sum(s) == After(s, [i \in 1..5 |-> Add32(h[i], s[i])] \o <<>>)
    IN  Sum(Rounds(RefSchedule([i \in 1..16 |-> Word(i - 1)] \o <<>>, 16, 79)))

\* the hash value after the first n blocks of bytes
RECURSIVE RefBlocks(_, _, _)
RefBlocks(h, bytes, n) ==
    IF n = 0 THEN h
    ELSE LET Last(prev) == After(prev, RefCompress(prev, SubSeq(bytes, (64 * n) - 63, 64 * n)))
         IN  Last(RefBlocks(h, bytes, n - 1))

\* the padded message, for a message of fewer than 2^28 bytes
RefPad(msg) ==
    msg \o <<128>> \o [i \in 1..((119 - Len(msg)) % 64) |-> 0]
    \o << 0, 0, 0, 0, (Len(msg) \div 2097152) % 256, (Len(msg) \div 8192) % 256,
          (Len(msg) \div 32) % 256, (Len(msg) * 8) % 256 >>

\* the 20-byte message digest
RefSHA1(msg) ==
    LET Bytes(h) == [i \in 1..20 |-> LET x == h[((i - 1) \div 4) + 1][(((i - 1) \div 2) % 2) + 1]
                                     IN  IF i % 2 = 1 THEN x \div 256 ELSE x % 256] \o <<>>
        Hash(p) == After(p, RefBlocks(IV, p, Len(p) \div 64))
    IN  Bytes(Hash(RefPad(msg)))

(***************************************************************************)
(* sha1() as a function of its argument, for a buffer whose full blocks    *)
(* take fewer than 2^31 bytes (the int product of line 643 then does not   *)
(* overflow): the bytes of the SHA1 object returned on a build b of byte   *)
(* order le when getCPUFlags() returns flags.                              *)
(***************************************************************************)
sha1(mem, b, le, flags) ==
    LET Copy(f)   == After(f, CopyTail(f, MemoryBytes(mem, f.data, f.size[2])))
        Pad(f)    == After(f, IF FitsOneBlock(f) THEN PadShort(f) ELSE PadLong(f, le))
        Last(f)   == After(f, Finish(f, mem, le))
        Result(f) == After(f, DigestBytes(SwapWords(f, le).hash, le))
    IN  Result(Last(Pad(Copy(
            FeedBlocks([Entry EXCEPT !.hash = IV, !.transform = SelectTransform(b, flags)],
                       mem, le, TRUE)))))

(***************************************************************************)
(* Buffers of the boundary lengths of the padding, hashed on every build   *)
(* with every backend the build has selected.                              *)
(***************************************************************************)
Lengths == {0, 55, 56, 57, 63, 64, 65, 119, 120, 128}

LengthBuffers == {PatternBuffer(Size(n), (n % 7) + 1) : n \in Lengths}

InitLengths == InitWith({c \in Configs : c.cpuFlags = Flags}, {1}, LengthBuffers)

SpecLengths == InitLengths /\ [][Next]_vars

(***************************************************************************)
(* Properties                                                              *)
(***************************************************************************)
Returned(t) == pc[t] = "done"

\* the number of transform calls made on the scratch block
BlockCalls(f) == Cardinality({i \in DOMAIN f.calls : f.calls[i].base = "block"})

\* floor(x / 64) and x * 64 of a 64-bit x
Shr6(x) ==
    << x[1] \div 64, ((x[1] % 64) * 1024) + (x[2] \div 64),
       ((x[2] % 64) * 1024) + (x[3] \div 64), ((x[3] % 64) * 1024) + (x[4] \div 64) >>

Shl6(x) ==
    << ((x[1] * 64) % Half) + (x[2] \div 1024), ((x[2] * 64) % Half) + (x[3] \div 1024),
       ((x[3] * 64) % Half) + (x[4] \div 1024), (x[4] * 64) % Half >>

\* the big-endian bytes of (L * 8) mod 2^64
BitLengthBytes(L) ==
    LET Bytes(x) == [k \in 1..8 |-> IF k % 2 = 1 THEN x[(k + 1) \div 2] \div 256
                                    ELSE x[k \div 2] % 256] \o <<>>
        Twice(x) == Add64(x, x)
    IN  Bytes(Twice(Twice(Twice(L))))

\* the L mod 64 bytes of the buffer after its last full block
TrailingBytes(mem) == MemoryBytes(mem, Shl6(Shr6(mem.size)), mem.size[4] % 64)

Zeros(n) == [i \in 1..n |-> 0] \o <<>>

\* C1: whatever the CPU flags are, sha1() returns the digest it returns for
\* the same buffer on the same build under every other value of the flags.
C1_FlagsDoNotChangeDigest ==
    \A t \in DOMAIN pc :
        (Returned(t) /\ Tracked(frame[t].hash)) =>
            \A flags \in SUBSET Flags :
                DigestBytes(frame[t].hash, littleEndian)
                    = sha1(memory[t], build, littleEndian, flags)

C1_AcceleratedRunReturned ==
    \E t \in DOMAIN pc :
        /\ Returned(t)
        /\ frame[t].transform = "arm_sha1_transform"
        /\ littleEndian
        /\ memory[t] = TextBuffer(Nist56)

\* C2: the digests of the three NIST messages, as the bytes of the result in
\* order: "" gives da39a3ee..., "abc" gives a9993e36..., and the 56-byte
\* message "abcdbcdecdef...nopq" gives 84983e44....
C2_NistVectors ==
    \A t \in DOMAIN pc :
        Returned(t) =>
            /\ memory[t] = TextBuffer(<<>>) =>
                   DigestBytes(frame[t].hash, littleEndian)
                       = << \hDA, \h39, \hA3, \hEE, \h5E, \h6B, \h4B, \h0D, \h32, \h55,
                            \hBF, \hEF, \h95, \h60, \h18, \h90, \hAF, \hD8, \h07, \h09 >>
            /\ memory[t] = TextBuffer(Abc) =>
                   DigestBytes(frame[t].hash, littleEndian)
                       = << \hA9, \h99, \h3E, \h36, \h47, \h06, \h81, \h6A, \hBA, \h3E,
                            \h25, \h71, \h78, \h50, \hC2, \h6C, \h9C, \hD0, \hD8, \h9D >>
            /\ memory[t] = TextBuffer(Nist56) =>
                   DigestBytes(frame[t].hash, littleEndian)
                       = << \h84, \h98, \h3E, \h44, \h1C, \h3B, \hD2, \h6E, \hBA, \hAE,
                            \h4A, \hA1, \hF9, \h51, \h29, \hE5, \hE5, \h46, \h70, \hF1 >>

C2_AbcHashedByIntel ==
    \E t \in DOMAIN pc :
        /\ Returned(t)
        /\ memory[t] = TextBuffer(Abc)
        /\ frame[t].transform = "intel_sha1_transform"

\* C3: for a buffer of 0, 55, 56, 57, 63, 64, 65, 119, 120 or 128 bytes the
\* result is the reference SHA-1 digest of its bytes, after one transform
\* call on the scratch block when (L mod 64) <= 55 and two otherwise.
C3_BoundaryLengths ==
    \A t \in DOMAIN pc :
        Returned(t) =>
            /\ memory[t].size[4] \in Lengths
            /\ DigestBytes(frame[t].hash, littleEndian)
                   = RefSHA1(MemoryBytes(memory[t], Zero64, memory[t].size[4]))
            /\ BlockCalls(frame[t]) = IF memory[t].size[4] % 64 <= 55 THEN 1 ELSE 2

C3_TwoFinalBlocksAfterFullBlock ==
    \E t \in DOMAIN pc :
        /\ Returned(t)
        /\ memory[t].size = Size(120)
        /\ BlockCalls(frame[t]) = 2
        /\ frame[t].transform = "arm_sha1_transform"

\* C4: for a buffer of L < 2^61 bytes the first transform call gets
\* floor(L / 64) blocks at offset 0 of the buffer, and the bytes copied to
\* the scratch block are the L mod 64 bytes at offsets 64 * floor(L / 64)
\* .. L - 1.
C4_FullBlocksAndTail ==
    \A t \in DOMAIN pc :
        (pc[t] = "pad" /\ Less64(memory[t].size, <<8192, 0, 0, 0>>)) =>
            /\ frame[t].calls[1].base = "memory"
            /\ frame[t].calls[1].lo = Zero64
            /\ <<0, 0, frame[t].calls[1].n \div Half, frame[t].calls[1].n % Half>>
                   = Shr6(memory[t].size)
            /\ frame[t].reads[Len(frame[t].reads)]
                   = [base |-> "memory", lo |-> Shl6(Shr6(memory[t].size)),
                      len |-> <<0, 0, 0, memory[t].size[4] % 64>>]
            /\ SubSeq(frame[t].block, 1, memory[t].size[4] % 64) = TrailingBytes(memory[t])

\* C5: when (L mod 64) + 1 <= 56, one transform call follows the call on
\* the full blocks, on the block: the L mod 64 trailing bytes of the buffer,
\* 0x80, zeros up to offset 55, the big-endian bit length at 56..63.
C5_OneFinalBlock ==
    \A t \in DOMAIN pc :
        (pc[t] \in {"swap", "done"} /\ (memory[t].size[4] % 64) + 1 <= 56) =>
            /\ Len(frame[t].calls) = 2
            /\ frame[t].calls[2].base = "block"
            /\ frame[t].calls[2].n = 1
            /\ frame[t].calls[2].bytes
                   = TrailingBytes(memory[t]) \o <<128>>
                     \o Zeros(55 - (memory[t].size[4] % 64)) \o BitLengthBytes(memory[t].size)

\* C6: when (L mod 64) + 1 > 56, two transform calls follow the call on the
\* full blocks: on the block of the trailing bytes, 0x80 and zeros up to
\* offset 63, then on 56 zeros followed by the big-endian bit length.
C6_TwoFinalBlocks ==
    \A t \in DOMAIN pc :
        (pc[t] \in {"swap", "done"} /\ (memory[t].size[4] % 64) + 1 > 56) =>
            /\ Len(frame[t].calls) = 3
            /\ frame[t].calls[2].base = "block" /\ frame[t].calls[2].n = 1
            /\ frame[t].calls[2].bytes
                   = TrailingBytes(memory[t]) \o <<128>>
                     \o Zeros(63 - (memory[t].size[4] % 64))
            /\ frame[t].calls[3].base = "block" /\ frame[t].calls[3].n = 1
            /\ frame[t].calls[3].bytes = Zeros(56) \o BitLengthBytes(memory[t].size)

\* C7: bytes 56..63 of the last block given to the backend are the
\* big-endian encoding of (L * 8) mod 2^64, L the size of the caller's buffer.
C7_BitLengthOfFullSize ==
    \A t \in DOMAIN pc :
        pc[t] \in {"swap", "done"} =>
            /\ frame[t].calls[Len(frame[t].calls)].base = "block"
            /\ SubSeq(frame[t].calls[Len(frame[t].calls)].bytes, 57, 64)
                   = BitLengthBytes(memory[t].size)

C7_LengthBeyond32Bits ==
    \E t \in DOMAIN pc :
        /\ Returned(t)
        /\ memory[t].size = <<8192, 0, 0, 5>>
        /\ SubSeq(frame[t].calls[Len(frame[t].calls)].bytes, 57, 64) = <<0, 0, 0, 0, 0, 0, 0, 40>>

\* C8: one call generic_sha1_transform(state, data, n) leaves in state the
\* reference hash value after the n blocks of data in order.
C8_GenericIsReference ==
    \A t \in DOMAIN pc :
        (/\ pc[t] = "transform"
         /\ Len(frame[t].calls) = 1
         /\ frame[t].transform = "generic_sha1_transform") =>
            frame[t].hash = RefBlocks(frame[t].calls[1].before, frame[t].calls[1].bytes,
                                      frame[t].calls[1].n)

C8_GenericCallOnTwoBlocks ==
    \E t \in DOMAIN pc :
        /\ pc[t] = "transform"
        /\ Len(frame[t].calls) = 1
        /\ frame[t].calls[1].fn = "generic_sha1_transform"
        /\ frame[t].calls[1].n = 2
        /\ frame[t].calls[1].before # IV

\* C9: after any sequence of calls on consecutive blocks, the state is the
\* one a single call of the same backend on all those blocks leaves.
C9_SplitCallsAgree ==
    \A t \in DOMAIN pc :
        (pc[t] = "transform" /\ Len(frame[t].calls) >= 1) =>
            frame[t].hash
                = Transform(frame[t].transform, littleEndian, frame[t].calls[1].before,
                            MemoryBytes(memory[t], Zero64, frame[t].data[4]),
                            frame[t].data[4] \div 64)

C9_TwoCallsOfOneBlock ==
    \E t \in DOMAIN pc :
        /\ pc[t] = "transform"
        /\ Len(frame[t].calls) = 2
        /\ frame[t].calls[1].n = 1 /\ frame[t].calls[2].n = 1
        /\ frame[t].transform = "intel_sha1_transform"

\* C10: a transform call with n blocks reads only the first 64 * n bytes at
\* its data argument, and every read of the caller's buffer is inside it.
C10_ReadsInsideBuffer ==
    \A t \in DOMAIN pc :
        /\ \A i \in DOMAIN frame[t].calls :
               ~Less64(Widen32(IntTimes64(frame[t].calls[i].n)),
                       TransformExtent(frame[t].calls[i].fn, frame[t].calls[i].n))
        /\ \A i \in DOMAIN frame[t].reads :
               frame[t].reads[i].base = "memory" =>
                   RangeInside(frame[t].reads[i].lo, frame[t].reads[i].len, memory[t].size)


(***************************************************************************)
(* Two threads of one process, each hashing the same buffer once: the      *)
(* calls interleave in every order, so one call also runs after the other  *)
(* has returned.                                                           *)
(***************************************************************************)
TwiceBuffers == {TextBuffer(Abc), TextBuffer(Nist56), PatternBuffer(<<0, 0, 32768, 1>>, 1)}

InitTwice ==
    /\ \E c \in Configs :
           build = c.build /\ littleEndian = c.littleEndian /\ cpuFlags = c.cpuFlags
    /\ \E b \in TwiceBuffers : memory = [t \in {1, 2} |-> b]
    /\ pc = [t \in {1, 2} |-> "call"]
    /\ frame = [t \in {1, 2} |-> Entry]

SpecTwice == InitTwice /\ [][Next]_vars

(***************************************************************************)
(* Calls whose argument has a null address: with a size of zero, and with  *)
(* sizes that are not zero, which no caller may pass.                      *)
(***************************************************************************)
NullBuffer(size) == [address |-> "null", size |-> size, text |-> <<>>, seed |-> 0]

\* null buffers of 0, 1, 60, 64, 2^32 and 2^32 + 3 bytes
NullBuffers ==
    { NullBuffer(Size(0)), NullBuffer(Size(1)), NullBuffer(Size(60)), NullBuffer(Size(64)),
      NullBuffer(<<0, 1, 0, 0>>), NullBuffer(<<0, 1, 0, 3>>) }

InitNull == InitWith(Configs, {1}, NullBuffers)

SpecNull == InitNull /\ [][Next]_vars

\* has thread t's call passed the selection of lines 622-636
Selected(t) == pc[t] \notin {"call", "select"}

\* C11 as stated: the backend is chosen by the capability flags alone, the
\* ARM extension first, then the Intel one, then the generic code.
C11_PriorityByFlags ==
    \A t \in DOMAIN pc :
        Selected(t) =>
            frame[t].transform
                = IF "ARM_SHA1" \in cpuFlags THEN "arm_sha1_transform"
                  ELSE IF "INTEL_SHA" \in cpuFlags THEN "intel_sha1_transform"
                  ELSE "generic_sha1_transform"

\* C11 amended: a build compiled with __ARM_FEATURE_CRYPTO selects the ARM
\* backend exactly when ARM_SHA1 is set; a build compiled without it and
\* with MANGO_ENABLE_SHA selects the Intel backend exactly when INTEL_SHA is
\* set; in every other case the generic backend is selected.
C11_PriorityAmongCompiledBackends ==
    \A t \in DOMAIN pc :
        Selected(t) =>
            /\ build = "arm" =>
                   frame[t].transform = IF "ARM_SHA1" \in cpuFlags THEN "arm_sha1_transform"
                                        ELSE "generic_sha1_transform"
            /\ build = "intel" =>
                   frame[t].transform = IF "INTEL_SHA" \in cpuFlags THEN "intel_sha1_transform"
                                        ELSE "generic_sha1_transform"
            /\ build = "generic" => frame[t].transform = "generic_sha1_transform"

C11_GenericDespiteArmFlag ==
    \E t \in DOMAIN pc :
        /\ Returned(t)
        /\ build = "generic"
        /\ "ARM_SHA1" \in cpuFlags
        /\ frame[t].transform = "generic_sha1_transform"

\* C12: two calls in one process, under the same capability flags, select
\* the same backend; the ARM backend is selected only with ARM_SHA1 set, the
\* Intel backend only with INTEL_SHA set, and with neither set the generic
\* backend is selected.
C12_SelectionFollowsFlags ==
    \A t \in DOMAIN pc :
        Selected(t) =>
            /\ \A u \in DOMAIN pc : Selected(u) => frame[u].transform = frame[t].transform
            /\ frame[t].transform = "arm_sha1_transform" => "ARM_SHA1" \in cpuFlags
            /\ frame[t].transform = "intel_sha1_transform" => "INTEL_SHA" \in cpuFlags
            /\ cpuFlags \cap Flags = {} => frame[t].transform = "generic_sha1_transform"

C12_BothCallsAccelerated ==
    /\ \A t \in DOMAIN pc : Returned(t) /\ frame[t].transform = "arm_sha1_transform"
    /\ Cardinality(DOMAIN pc) = 2
    /\ cpuFlags = {"ARM_SHA1"}

\* C13: no transform call is made before the backend is selected, every
\* transform call of the computation goes to the backend selected, and
\* getCPUFlags() is called at most once, in the selection.
C13_OneSelectionPerCall ==
    \A t \in DOMAIN pc :
        /\ ~Selected(t) => frame[t].calls = <<>> /\ frame[t].queries = 0
        /\ Selected(t) =>
               /\ frame[t].transform = SelectTransform(build, cpuFlags)
               /\ frame[t].queries = FlagQueries(build)
        /\ frame[t].queries <= 1
        /\ \A i \in DOMAIN frame[t].calls : frame[t].calls[i].fn = frame[t].transform

C13_ThreeCallsOfTheIntelBackend ==
    \E t \in DOMAIN pc :
        /\ Returned(t)
        /\ Len(frame[t].calls) = 3
        /\ \A i \in 1..3 : frame[t].calls[i].fn = "intel_sha1_transform"
        /\ frame[t].queries = 1

\* the hash value the last transform call of a returned computation left
FinalState(f) ==
    Transform(f.calls[Len(f.calls)].fn, littleEndian, f.calls[Len(f.calls)].before,
              f.calls[Len(f.calls)].bytes, f.calls[Len(f.calls)].n)

\* the four bytes of a word, most significant first
BigEndianBytes(x) == <<x[1] \div 256, x[1] % 256, x[2] \div 256, x[2] % 256>>

\* C14: the bytes of the digest returned are, word by word, the bytes of the
\* final state words most significant first; the words returned are the
\* final state words byte-swapped on a little-endian host and unchanged on
\* a big-endian host; and the build of the other byte order returns the
\* same bytes for the same buffer.
C14_DigestBytesIndependentOfHost ==
    \A t \in DOMAIN pc :
        (Returned(t) /\ Tracked(frame[t].hash)) =>
            /\ DigestBytes(frame[t].hash, littleEndian)
                   = BigEndianBytes(FinalState(frame[t])[1])
                     \o BigEndianBytes(FinalState(frame[t])[2])
                     \o BigEndianBytes(FinalState(frame[t])[3])
                     \o BigEndianBytes(FinalState(frame[t])[4])
                     \o BigEndianBytes(FinalState(frame[t])[5])
            /\ \A k \in 1..5 :
                   frame[t].hash[k] = IF littleEndian THEN byteswap(FinalState(frame[t])[k])
                                      ELSE FinalState(frame[t])[k]
            /\ build \in {"generic", "arm"} =>
                   DigestBytes(frame[t].hash, littleEndian)
                       = sha1(memory[t], build, ~littleEndian, cpuFlags)

C14_BigEndianArmRunReturned ==
    \E t \in DOMAIN pc :
        /\ Returned(t)
        /\ ~littleEndian
        /\ frame[t].transform = "arm_sha1_transform"
        /\ memory[t] = TextBuffer(Abc)
        /\ frame[t].hash = FinalState(frame[t])

\* C15: the byte swap of the state words has run once when a call on a
\* little-endian host has returned and not at all before the last transform
\* call has returned (nor ever on a big-endian host); each transform call
\* starts from the state the call before it left.
C15_SwapOnceAfterLastTransform ==
    \A t \in DOMAIN pc :
        /\ frame[t].swaps = IF Returned(t) /\ littleEndian THEN 1 ELSE 0
        /\ \A i \in DOMAIN frame[t].calls :
               (i > 1 /\ Tracked(frame[t].calls[i].before)) =>
                   frame[t].calls[i].before
                       = Transform(frame[t].calls[i - 1].fn, littleEndian,
                                   frame[t].calls[i - 1].before, frame[t].calls[i - 1].bytes,
                                   frame[t].calls[i - 1].n)
        /\ (pc[t] = "swap" /\ Tracked(frame[t].hash)) => frame[t].hash = FinalState(frame[t])

C15_SwappedAfterThreeCalls ==
    \E t \in DOMAIN pc :
        /\ Returned(t)
        /\ littleEndian
        /\ Len(frame[t].calls) = 3
        /\ frame[t].swaps = 1
        /\ Tracked(frame[t].hash)
        /\ frame[t].hash # FinalState(frame[t])

\* has thread t's call ended, with a digest or by a fault
Ended(t) == pc[t] \in {"done", "fault"}

\* C16: two calls of sha1() on the same buffer end the same way with the
\* same digest, having given the same blocks to the backend, and no byte
\* given to the backend is an uninitialised byte of the scratch block.
C16_SameBufferSameDigest ==
    \A t \in DOMAIN pc :
        /\ \A i \in DOMAIN frame[t].calls :
               \A k \in DOMAIN frame[t].calls[i].bytes : frame[t].calls[i].bytes[k] # Uninit
        /\ \A u \in DOMAIN pc :
               (Ended(t) /\ Ended(u) /\ memory[t] = memory[u]) =>
                   /\ pc[t] = pc[u]
                   /\ frame[t].hash = frame[u].hash
                   /\ frame[t].calls = frame[u].calls

\* C17: every store of sha1() and of the backend it calls is inside the
\* 20 bytes of hash.data or inside the 64 bytes of the scratch block; none
\* is to the caller's buffer.
C17_StoresOnlyToLocals ==
    \A t \in DOMAIN pc :
        \A w \in frame[t].writes :
            /\ w.base \in {"hash", "block"}
            /\ w.lo >= 0 /\ w.len >= 0
            /\ w.lo + w.len <= IF w.base = "hash" THEN 20 ELSE 64

C17_AllStoresOfALongPaddingDone ==
    \E t \in DOMAIN pc :
        /\ Returned(t)
        /\ littleEndian
        /\ frame[t].transform = "intel_sha1_transform"
        /\ { Write("block", 0, 56), Write("block", 57, 7), Write("block", 56, 8),
             Write("hash", 0, 16), Write("hash", 16, 4) } \subseteq frame[t].writes

IsWord(x) == Len(x) = 2 /\ x[1] \in 0..65535 /\ x[2] \in 0..65535

\* C18: the value sha1() returns is five words of 32 bits, 20 bytes in
\* memory, for a buffer of any length, the empty one included.  (Of a call
\* whose full blocks are more than the model follows, the value is not
\* computed.)
C18_DigestIsFiveWords ==
    \A t \in DOMAIN pc :
        Returned(t) =>
            IF frame[t].calls[1].n > MaxTrackedBlocks
            THEN frame[t].hash = Untracked
            ELSE /\ Len(frame[t].hash) = 5
                 /\ \A k \in 1..5 : IsWord(frame[t].hash[k])
                 /\ Len(DigestBytes(frame[t].hash, littleEndian)) = 20
                 /\ \A k \in 1..20 : DigestBytes(frame[t].hash, littleEndian)[k] \in 0..255

C18_EmptyBufferDigest ==
    \E t \in DOMAIN pc :
        /\ Returned(t)
        /\ memory[t].size = Zero64
        /\ Len(DigestBytes(frame[t].hash, littleEndian)) = 20

\* the block compressions of a computation: the iterations of the backend
\* loops over all its transform calls, as a 64-bit number
RECURSIVE Compressions(_, _)
Compressions(calls, i) ==
    IF i > Len(calls) THEN Zero64
    ELSE Add64(<<0, 0, calls[i].n \div Half, calls[i].n % Half>>, Compressions(calls, i + 1))

\* C19: no call on a buffer ends in a fault, and a call that has returned
\* has made floor(L / 64) + 1 or floor(L / 64) + 2 block compressions:
\* floor(L / 64) in the first transform call and one in each call on the
\* scratch block.
C19_ReturnsAfterAllBlocks ==
    \A t \in DOMAIN pc :
        /\ pc[t] # "fault"
        /\ Returned(t) =>
               /\ <<0, 0, frame[t].calls[1].n \div Half, frame[t].calls[1].n % Half>>
                      = Shr6(memory[t].size)
               /\ \A i \in 2..Len(frame[t].calls) : frame[t].calls[i].n = 1
               /\ BlockCalls(frame[t]) \in {1, 2}
               /\ Compressions(frame[t].calls, 1)
                      \in { Add64(Shr6(memory[t].size), <<0, 0, 0, 1>>),
                            Add64(Shr6(memory[t].size), <<0, 0, 0, 2>>) }

\* C20: a call with a null address and a size that is not zero returns no
\* digest, and unless it has ended in a fault it has read no byte through
\* the null address.
C20_NullBufferIsFatal ==
    \A t \in DOMAIN pc :
        (memory[t].address = "null" /\ memory[t].size # Zero64) =>
            /\ ~Returned(t)
            /\ pc[t] # "fault" =>
                   \A i \in DOMAIN frame[t].reads :
                       frame[t].reads[i].base = "memory" => frame[t].reads[i].len = Zero64

(***************************************************************************)
(* Two threads of one process, each hashing a buffer of its own: the two   *)
(* calls interleave in every order.                                        *)
(***************************************************************************)
PairBuffers == {TextBuffer(Abc), TextBuffer(Nist56), PatternBuffer(Size(64), 1)}

InitPair ==
    /\ InitWith({c \in Configs : c.cpuFlags \in {{}, Flags}}, {1, 2}, PairBuffers)
    /\ memory[1] # memory[2]

SpecPair == InitPair /\ [][Next]_vars

\* what a step of thread t leaves alone: the locals of every other call and
\* the cached CPU flags
OwnFrameOnly(t) ==
    /\ \A u \in DOMAIN frame : u # t => frame'[u] = frame[u]
    /\ cpuFlags' = cpuFlags

\* C21: calls of sha1() on buffers of their own, interleaved in any order on
\* two threads, each return the digest the call returns when it runs alone;
\* a step of a call changes the digest state and the scratch block of that
\* call only, and the CPU flags, the one datum the calls share, are only read.
C21_InterleavedCallsAreIndependent ==
    /\ [](\A t \in DOMAIN pc :
              Returned(t) =>
                  DigestBytes(frame[t].hash, littleEndian)
                      = sha1(memory[t], build, littleEndian, cpuFlags))
    /\ [][\A t \in DOMAIN pc : pc'[t] # pc[t] => OwnFrameOnly(t)]_vars

\* both calls have returned, on different buffers and after different numbers
\* of transform calls
C21_BothReturnedOnOwnBuffers ==
    /\ \A t \in DOMAIN pc : Returned(t)
    /\ memory[1] # memory[2]
    /\ Len(frame[1].calls) # Len(frame[2].calls)

\* the bytes and the number of the blocks given to the transform calls 1..i
RECURSIVE CallBytes(_, _)
CallBytes(calls, i) == IF i = 0 THEN <<>> ELSE CallBytes(calls, i - 1) \o calls[i].bytes

RECURSIVE CallBlocks(_, _)
CallBlocks(calls, i) == IF i = 0 THEN 0 ELSE CallBlocks(calls, i - 1) + calls[i].n

\* the state transform call i of f has left in hash.data, the call being the
\* last one or followed by another
StateAfter(f, i) == IF i < Len(f.calls) THEN f.calls[i + 1].before ELSE f.hash

\* C22: the blocks are compressed in input order, each from the state the
\* block before it produced: the first transform call gets the full blocks
\* of the buffer from offset 0 on, every later call one scratch block; the
\* state after each call is the reference hash value of all blocks given so
\* far taken in that order from the initial value; the block that carries
\* the bit length is the block of the last call.
C22_BlocksInInputOrder ==
    \A t \in DOMAIN pc :
        pc[t] = "swap" =>
            /\ frame[t].calls[1].base = "memory"
            /\ frame[t].calls[1].lo = Zero64
            /\ frame[t].calls[1].bytes
                   = MemoryBytes(memory[t], Zero64, 64 * (memory[t].size[4] \div 64))
            /\ \A i \in 2..Len(frame[t].calls) :
                   frame[t].calls[i].base = "block" /\ frame[t].calls[i].n = 1
            /\ \A i \in DOMAIN frame[t].calls :
                   StateAfter(frame[t], i)
                       = RefBlocks(IV, CallBytes(frame[t].calls, i),
                                   CallBlocks(frame[t].calls, i))
            /\ \A i \in DOMAIN frame[t].calls :
                   (i = Len(frame[t].calls))
                       <=> /\ frame[t].calls[i].base = "block"
                           /\ SubSeq(frame[t].calls[i].bytes, 57, 64)
                                  = BitLengthBytes(memory[t].size)

\* the last transform call of a computation on 128 bytes has returned: two
\* blocks of the buffer in the first call of the generic backend, then the
\* padding block
C22_TwoInputBlocksThenPadding ==
    \E t \in DOMAIN pc :
        /\ pc[t] = "swap"
        /\ memory[t].size = Size(128)
        /\ frame[t].transform = "generic_sha1_transform"
        /\ frame[t].calls[1].n = 2
        /\ Len(frame[t].calls) = 2

\* C23: the state the first transform call of a computation starts from is
\* 0x67452301, 0xefcdab89, 0x98badcfe, 0x10325476, 0xc3d2e1f0, whatever the
\* buffer is and whatever other calls have computed before it.
C23_FirstCallStartsFromInitialValue ==
    \A t \in DOMAIN pc :
        Len(frame[t].calls) >= 1 =>
            frame[t].calls[1].before
                = << U32(\h6745, \h2301), U32(\hEFCD, \hAB89), U32(\h98BA, \hDCFE),
                     U32(\h1032, \h5476), U32(\hC3D2, \hE1F0) >>

\* a call has made its first transform call while the other call of the
\* process has returned its digest
C23_FirstCallBesideAReturnedCall ==
    /\ Returned(1)
    /\ Tracked(frame[1].hash)
    /\ frame[1].hash # IV
    /\ pc[2] = "tail"
    /\ Len(frame[2].calls) = 1
    /\ frame[2].calls[1].fn = "arm_sha1_transform"

\* the 64-byte blocks the generic backend has been given in the last call of
\* f (each call is the last one in the state it leads to)
GenericBlocksOf(f) ==
    UNION { { SubSeq(f.calls[i].bytes, (64 * k) + 1, (64 * k) + 64) :
                  k \in 0..((Len(f.calls[i].bytes) \div 64) - 1) } :
            i \in {j \in {Len(f.calls)} \ {0} : f.calls[j].fn = "generic_sha1_transform"} }

\* the word of four bytes, most significant first
BigEndianWord(b) == U32((b[1] * 256) + b[2], (b[3] * 256) + b[4])

\* C24: for every block the generic backend is given, w has the 80 words
\* w[0] .. w[79]; w[0..15] are the sixteen words of the block, most
\* significant byte first; and for i in 16..79
\* w[i] = rol(w[i-3] ^ w[i-8] ^ w[i-14] ^ w[i-16], 1), each operand being a
\* word of a smaller index in 0..79, so the words are those of the reference
\* message schedule.
C24_ScheduleIsTheRecurrence ==
    \A t \in DOMAIN pc :
        \A blk \in GenericBlocksOf(frame[t]) :
            LET Holds(w) ==
                    /\ DOMAIN w = 1..80
                    /\ \A i \in 0..15 :
                           w[i + 1] = BigEndianWord(SubSeq(blk, (4 * i) + 1, (4 * i) + 4))
                    /\ \A i \in 16..79 :
                           /\ {i - 3, i - 8, i - 14, i - 16} \subseteq 0..(i - 1)
                           /\ w[i + 1]
                                  = u32_rol(Xor32(Xor32(Xor32(w[i - 2], w[i - 7]), w[i - 13]),
                                                  w[i - 15]), 1)
                    /\ w = RefSchedule(SubSeq(w, 1, 16), 16, 79)
            IN  Holds(GenericSchedule(blk))

\* the generic backend has been called on one block from a state that is
\* not the initial one
C24_GenericCallOnOneBlock ==
    \E t \in DOMAIN pc :
        /\ Len(frame[t].calls) = 1
        /\ frame[t].calls[1].fn = "generic_sha1_transform"
        /\ frame[t].calls[1].n = 1
        /\ frame[t].calls[1].before = OtherState
        /\ GenericSchedule(frame[t].calls[1].bytes)[80] # Zero32

\* the canonical working variables <<a, b, c, d, e>> after each of the rounds
\* lo..hi, those before round lo being s
RECURSIVE RefTrace(_, _, _, _)
RefTrace(s, w, lo, hi) ==
    IF lo = hi THEN <<RefRound(s, lo, w)>>
    ELSE LET Rest(left) ==
                 left \o RefTrace(left[Len(left)], w, ((lo + hi) \div 2) + 1, hi)
         IN  Rest(RefTrace(s, w, lo, (lo + hi) \div 2))

\* the registers in which the parameters A, B, C, D, E of a round call find
\* the canonical s, and the canonical variables a call's parameters name
RegistersFor(s, call) ==
    [n \in {"A", "B", "C", "D", "E"} |->
        IF n = call[2] THEN s[1] ELSE IF n = call[3] THEN s[2] ELSE IF n = call[4] THEN s[3]
        ELSE IF n = call[5] THEN s[4] ELSE s[5]]

NamedBy(r, call) == <<r[call[2]], r[call[3]], r[call[4]], r[call[5]], r[call[6]]>>

\* words whose bits go through every combination of three bits
SelectSamples ==
    {Zero32, Ones32, U32(\hAAAA, \h5555), U32(\h00FF, \hF0F0), U32(\h3333, \hCCCC)}

\* C25, of the transform call made last (each call is the last one in the
\* state it leads to): each of the 80 round calls, its arguments taken as
\* the canonical a..e, does the canonical round of its index (choose and K1 in rounds
\* 0..19, parity and K2 in 20..39, majority and K3 in 40..59, parity and K4
\* in 60..79), and leaves the canonical variables in the registers the next
\* call names, after the last call in A..E; so the 80 calls leave in A..E
\* what 80 canonical rounds leave in a..e.  u32_select(B, C, D) is choose
\* and u32_select(B ^ C, D, C) is majority.
C25_RoundCallsAreCanonicalRounds ==
    /\ \A t \in DOMAIN pc :
           \A i \in {Len(frame[t].calls)} \ {0} :
               (frame[t].calls[i].fn = "generic_sha1_transform" /\ frame[t].calls[i].n >= 1) =>
                   LET Holds(s, w, trace) ==
                           /\ Len(RoundCalls) = 80
                           /\ \A k \in 1..80 :
                                  /\ RoundCalls[k][1] = ((k - 1) \div 20) + 1
                                  /\ RoundCalls[k][7] = k - 1
                                  /\ {RoundCalls[k][j] : j \in 2..6} = {"A", "B", "C", "D", "E"}
                                  /\ NamedBy(ApplyCall(RegistersFor(IF k = 1 THEN s
                                                                    ELSE trace[k - 1],
                                                                    RoundCalls[k]),
                                                       w, RoundCalls[k]),
                                             IF k < 80 THEN RoundCalls[k + 1]
                                             ELSE <<4, "A", "B", "C", "D", "E", 80>>)
                                         = trace[k]
                           /\ RoundCalls[1] = <<1, "A", "B", "C", "D", "E", 0>>
                           /\ NamedBy(ApplyCalls(RegistersFor(s, RoundCalls[1]), w, 1, 80),
                                      RoundCalls[1])
                                  = trace[80]
                       Traced(s, w) == Holds(s, w, RefTrace(s, w, 0, 79))
                   IN  Traced(frame[t].calls[i].before,
                              GenericSchedule(SubSeq(frame[t].calls[i].bytes, 1, 64)))
    /\ \A b \in SelectSamples, c \in SelectSamples, d \in SelectSamples :
           /\ u32_select(b, c, d) = Or32(And32(b, c), And32(Not32(b), d))
           /\ u32_select(Xor32(b, c), d, c)
                  = Or32(Or32(And32(b, c), And32(b, d)), And32(c, d))

\* the generic backend has been called on a block in its second call, from
\* the state its first call left
C25_SecondGenericCall ==
    \E t \in DOMAIN pc :
        /\ Len(frame[t].calls) = 2
        /\ frame[t].calls[1].n = 1
        /\ frame[t].calls[2].fn = "generic_sha1_transform"
        /\ frame[t].calls[2].n = 1
        /\ frame[t].calls[2].before \notin {IV, OtherState}

\* state + registers, word by word mod 2^32, the registers being those the
\* 80 rounds on the block blk leave when started from state
FeedForward(state, blk) ==
    LET Sum(r) == << Add32(state[1], r[1]), Add32(state[2], r[2]), Add32(state[3], r[3]),
                     Add32(state[4], r[4]), Add32(state[5], r[5]) >>
        Rounds(w) == Sum(RefRounds(state, w, 0, 79))
    IN  Rounds(RefSchedule([i \in 1..16 |->
                               BigEndianWord(SubSeq(blk, (4 * i) - 3, 4 * i))] \o <<>>, 16, 79))

\* the running state after the first n blocks of bytes
RECURSIVE RunningState(_, _, _)
RunningState(state, bytes, n) ==
    IF n = 0 THEN state
    ELSE LET Next1(s) == FeedForward(s, SubSeq(bytes, (64 * n) - 63, 64 * n))
         IN  Next1(RunningState(state, bytes, n - 1))

\* C26: in each of the three backends a block adds the registers the 80
\* rounds leave to the state the block started from, word by word mod 2^32;
\* the next block starts from that sum, and what a call writes back is the
\* running state after its last block.  Stated of the call made last, each
\* call being the last one in the state it leads to.
C26_StateIsSumOfRegisters ==
    \A t \in DOMAIN pc :
        \A i \in {Len(frame[t].calls)} \ {0} :
            StateAfter(frame[t], i)
                = RunningState(frame[t].calls[i].before, frame[t].calls[i].bytes,
                               frame[t].calls[i].n)

\* the ARM backend has been called on two blocks, from a state whose sums
\* wrap around
C26_ArmCallOnTwoBlocks ==
    \E t \in DOMAIN pc :
        /\ Len(frame[t].calls) = 1
        /\ frame[t].calls[1].fn = "arm_sha1_transform"
        /\ frame[t].calls[1].n = 2
        /\ frame[t].calls[1].before = OtherState
        /\ frame[t].hash # OtherState

\* the state words as the initialisation or the last transform call so far
\* has left them
StateOfBackends(f) == IF f.calls = <<>> THEN IV ELSE FinalState(f)

\* C27 as stated: once initialised, the state words are those the last
\* transform call left, at every step of sha1() up to its return, and no
\* step outside a transform call has read and rewritten them.
C27_StateTouchedByBackendsOnly ==
    \A t \in DOMAIN pc :
        (pc[t] # "call" /\ Tracked(frame[t].hash)) =>
            /\ frame[t].hash = StateOfBackends(frame[t])
            /\ frame[t].swaps = 0

\* C27: from the initialisation to the return of the last transform call
\* the state words are those the last transform call left, no other step
\* having read or written them; after the last transform call a
\* little-endian build reads and rewrites each word once, byte-swapped, and
\* a big-endian build leaves them.
C27_StateTouchedByBackendsAndSwap ==
    \A t \in DOMAIN pc :
        /\ frame[t].swaps = IF Returned(t) /\ littleEndian THEN 1 ELSE 0
        /\ (pc[t] # "call" /\ Tracked(frame[t].hash)) =>
               frame[t].hash
                   = IF frame[t].swaps = 0 THEN StateOfBackends(frame[t])
                     ELSE [k \in 1..5 |-> byteswap(StateOfBackends(frame[t])[k])] \o <<>>

\* a call on 64 bytes has returned on a little-endian build: the words
\* returned are not the words its last transform call left
C27_StateRewrittenAfterLastCall ==
    \E t \in DOMAIN pc :
        /\ Returned(t)
        /\ littleEndian
        /\ memory[t] = PatternBuffer(Size(64), 1)
        /\ Len(frame[t].calls) = 2
        /\ frame[t].swaps = 1
        /\ frame[t].hash # StateOfBackends(frame[t])

(***************************************************************************)
(* Buffers of every length from 0 to 127 bytes, so of every remainder      *)
(* 0..63 with and without a full block before it, and the buffers of 2^31  *)
(* bytes and more, hashed on every build with the backend it selects.      *)
(***************************************************************************)
RemainderBuffers == {PatternBuffer(Size(n), (n % 2) + 1) : n \in 0..127}

InitRemainders ==
    InitWith({c \in Configs : c.cpuFlags = Flags}, {1}, RemainderBuffers \cup LargeBuffers)

SpecRemainders == InitRemainders /\ [][Next]_vars

\* C28: every block a transform call reads from the scratch array has 64
\* bytes the call has written, none left as declared; after the tail copy
\* the bytes up to and including the 0x80 are written; and in the two-block
\* branch the second block holds nothing of the first: zeros at 0..55 and
\* the bit length at 56..63.
C28_ScratchBlockWrittenBeforeRead ==
    \A t \in DOMAIN pc :
        /\ pc[t] = "pad" =>
               \A j \in 1..frame[t].size[2] : frame[t].block[j] \in 0..255
        /\ \A i \in DOMAIN frame[t].calls :
               frame[t].calls[i].base = "block" =>
                   /\ Len(frame[t].calls[i].bytes) = 64
                   /\ \A j \in 1..64 : frame[t].calls[i].bytes[j] \in 0..255
                   /\ i = 3 =>
                          /\ SubSeq(frame[t].calls[i].bytes, 1, 56) = Zeros(56)
                          /\ SubSeq(frame[t].calls[i].bytes, 57, 64)
                                 = BitLengthBytes(memory[t].size)
                          /\ \E j \in 1..56 : frame[t].calls[2].bytes[j] # 0

\* a call on 63 bytes has made its two calls on the scratch block
C28_TwoBlocksForRemainder63 ==
    \E t \in DOMAIN pc :
        /\ pc[t] = "swap"
        /\ memory[t].size = Size(63)
        /\ Len(frame[t].calls) = 3
        /\ frame[t].calls[2].bytes[64] = 128
        /\ frame[t].calls[3].bytes[64] = 248

\* the stores to the scratch array of a call whose size is r after line 644,
\* as offset and length: the tail copy, the 0x80, the zero fill or fills of
\* the branch taken, the bit length
BlockStores(r) ==
    {Write("block", 0, r), Write("block", r, 1), Write("block", 56, 8)}
    \cup (IF r + 1 <= 56 THEN {Write("block", r + 1, 56 - (r + 1))}
          ELSE {Write("block", r + 1, 64 - (r + 1)), Write("block", 0, 56)})

\* C29: every store to the scratch array lies in its 64 bytes: the tail copy
\* has at most 63 bytes, the 0x80 goes to an index of at most 63, each zero
\* fill has a length of 56 - size or 64 - size that is not negative and ends
\* at offset 56 or 64, and the bit length takes the offsets 56..63; a call
\* that has made its last transform call has made exactly these stores.
C29_BlockStoresInBounds ==
    \A t \in DOMAIN pc :
        LET r == memory[t].size[4] % 64
            stores == {w \in frame[t].writes : w.base = "block"}
        IN  /\ \A w \in stores : w.lo >= 0 /\ w.len >= 0 /\ w.lo + w.len <= 64
            /\ stores \subseteq BlockStores(r)
            /\ \A w \in BlockStores(r) : w.lo >= 0 /\ w.len >= 0 /\ w.lo + w.len <= 64
            /\ pc[t] \in {"pad", "final", "swap", "done"} =>
                   /\ frame[t].size[1] = 0
                   /\ frame[t].size[2] = r + 1
                   /\ Write("block", 0, r) \in stores
                   /\ Write("block", r, 1) \in stores
            /\ pc[t] \in {"swap", "done"} => stores = BlockStores(r)

\* a call on 127 bytes has made its last transform call: 63 bytes copied,
\* the 0x80 at index 63 and a zero fill of no byte at offset 64
C29_StoresForRemainder63 ==
    \E t \in DOMAIN pc :
        /\ pc[t] = "swap"
        /\ memory[t].size = Size(127)
        /\ Write("block", 0, 63) \in frame[t].writes
        /\ Write("block", 63, 1) \in frame[t].writes
        /\ Write("block", 64, 0) \in frame[t].writes

\* C30: a call of a backend with a block count of 0 reads no byte at data
\* and leaves in the five state words the values they had, for the generic,
\* the ARM and the Intel backend.
C30_NoBlocksNoEffect ==
    \A t \in DOMAIN pc :
        \A i \in DOMAIN frame[t].calls :
            frame[t].calls[i].n = 0 =>
                /\ frame[t].reads[i].len = Zero64
                /\ frame[t].calls[i].bytes = <<>>
                /\ StateAfter(frame[t], i) = frame[t].calls[i].before

\* the Intel backend has been called with a block count of 0 after a call
\* on a block, and then again on a block
C30_IntelCallOnNoBlocks ==
    \E t \in DOMAIN pc :
        /\ Len(frame[t].calls) = 3
        /\ frame[t].calls[2].fn = "intel_sha1_transform"
        /\ frame[t].calls[1].n = 1
        /\ frame[t].calls[2].n = 0
        /\ frame[t].calls[3].n = 1
        /\ frame[t].calls[2].before \notin {IV, OtherState}
        /\ frame[t].calls[3].before = frame[t].calls[2].before
====
